---- MODULE Spec2Model ----
(***************************************************************************)
(* Model of the analytics functions of src/utils/analysis_utils.py:        *)
(* calculate_category_stats, calculate_mom_growth, detect_outliers and     *)
(* predict_monthly_expense, applied to a list of Expense records           *)
(* (src/database/models.py), and of the date parser parse_date.            *)
(*                                                                         *)
(* Numbers.  Amounts are integers (currency units).  The quotients the     *)
(* code computes in floating point (mean, median, growth percentage) are   *)
(* kept as exact fractions <<numerator, denominator>> in lowest terms with *)
(* a positive denominator.  The standard deviation is kept by its square   *)
(* (the population variance): std = sqrt(std_sq), std >= 0.  Rounding of   *)
(* IEEE doubles is not modelled.                                           *)
(*                                                                         *)
(* Dates are triples <<year, month, day>>; a missing date (None) is <<>>.  *)
(*                                                                         *)
(* The storage, DatabaseManager (src/database/db_manager.py), and the      *)
(* handlers that write to it (src/main.py, src/agents/db_agent.py) are     *)
(* modelled on the table `expenses`.                                       *)
(***************************************************************************)
EXTENDS Integers, Sequences, FiniteSets, TLC

VARIABLES
    expenses,       \* the argument `expenses`: a list of Expense
    current_month,  \* the argument `current_month` of calculate_mom_growth
    target_month,   \* the argument `target_month` of predict_monthly_expense
    date_str,       \* the argument `date_str` of parse_date
    called,         \* which function has been applied ("none" before the call)
    result,         \* the value that function returned
    table,          \* the rows of the table `expenses`, by id
    sequence,       \* the largest id the table has ever given
    issued,         \* the ids add_expense has returned, in order
    args            \* the arguments of the last call on the storage

vars == <<expenses, current_month, target_month, date_str, called, result,
         table, sequence, issued, args>>

----------------------------------------------------------------------------
(* Bounds of the inputs.                                                   *)

\* longest input list for the statistics
MaxStatsLen == 4
\* longest input list for the outlier detection
MaxOutlierLen == 6
\* longest input list of one category for the order of the outliers
MaxRunLen == 12
\* longest input list for the month-on-month arithmetic
MaxGrowthLen == 3
\* longest input list for the month bucketing
MaxBucketLen == 3
\* longest input list for the forecast
MaxForecastLen == 4
\* longest input list given to all four analytics functions
MaxAllLen == 3

NoDate == <<>>
NoneStr == "None"
Categories == {"food", "transport"}

----------------------------------------------------------------------------
(* Exact fractions.                                                        *)

Abs(n) == IF n < 0 THEN -n ELSE n

RECURSIVE Gcd(_, _)
Gcd(a, b) == IF b = 0 THEN a ELSE Gcd(b, a % b)

\* n/d in lowest terms, d # 0
Frac(n, d) ==
    LET g == Gcd(Abs(n), Abs(d))
        s == IF d < 0 THEN -1 ELSE 1
    IN  <<(s * n) \div g, (s * d) \div g>>

FracOfInt(n) == <<n, 1>>

\* the least common denominator of two fractions
Lcd(a, b) == (a[2] \div Gcd(a[2], b[2])) * b[2]

\* the numerator of a over the denominator l, a multiple of a's own
Over(a, l) == a[1] * (l \div a[2])

FracSub(a, b) ==
    LET l == Lcd(a, b) IN Frac(Over(a, l) - Over(b, l), l)
FracMul(a, b) == Frac(a[1] * b[1], a[2] * b[2])
FracLess(a, b) ==
    LET l == Lcd(a, b) IN Over(a, l) < Over(b, l)

----------------------------------------------------------------------------
(* Python built-ins and numpy reductions on a list of amounts.             *)

RECURSIVE SeqSum(_)
\* sum(amounts)
SeqSum(s) == IF s = <<>> THEN 0 ELSE s[1] + SeqSum(Tail(s))

RECURSIVE SeqSumSq(_)
SeqSumSq(s) == IF s = <<>> THEN 0 ELSE s[1] * s[1] + SeqSumSq(Tail(s))

RECURSIVE SeqMin(_)
\* min(amounts), amounts non-empty
SeqMin(s) ==
    IF Len(s) = 1 THEN s[1]
    ELSE LET m == SeqMin(Tail(s)) IN IF s[1] < m THEN s[1] ELSE m

RECURSIVE SeqMax(_)
\* max(amounts), amounts non-empty
SeqMax(s) ==
    IF Len(s) = 1 THEN s[1]
    ELSE LET m == SeqMax(Tail(s)) IN IF s[1] > m THEN s[1] ELSE m

RECURSIVE Insert(_, _)
Insert(x, s) ==
    IF s = <<>> THEN <<x>>
    ELSE IF x <= s[1] THEN <<x>> \o s
    ELSE <<s[1]>> \o Insert(x, Tail(s))

RECURSIVE Sorted(_)
Sorted(s) == IF s = <<>> THEN <<>> ELSE Insert(s[1], Sorted(Tail(s)))

\* np.mean(amounts)
NpMean(s) == Frac(SeqSum(s), Len(s))

\* faulty variant: the middle of the amounts as they come, not sorted
NpMedian_Unsorted(s) ==
    LET n == Len(s)
    IN  IF n % 2 = 1 THEN FracOfInt(s[(n + 1) \div 2])
        ELSE Frac(s[n \div 2] + s[n \div 2 + 1], 2)

\* np.median(amounts): the middle of the sorted amounts, the mean of the two
\* middle ones when there is an even number of them
NpMedian(s) ==
    LET t == Sorted(s)
        n == Len(s)
    IN  IF n % 2 = 1 THEN FracOfInt(t[(n + 1) \div 2])
        ELSE Frac(t[n \div 2] + t[n \div 2 + 1], 2)

\* np.std(amounts) squared: the population variance mean((x - mean)^2),
\* which is (n * sum(x^2) - sum(x)^2) / n^2
NpStdSq(s) ==
    LET n == Len(s)
    IN  Frac(n * SeqSumSq(s) - SeqSum(s) * SeqSum(s), n * n)

----------------------------------------------------------------------------
(* calculate_category_stats                                                *)

RECURSIVE CategoryData_KeepLast(_, _)
\* faulty variant: category_data[category] = [amount] in place of append
CategoryData_KeepLast(exps, category) ==
    IF exps = <<>> THEN <<>>
    ELSE LET rest == CategoryData_KeepLast(Tail(exps), category)
         IN  IF rest # <<>> THEN rest
             ELSE IF exps[1].category = category THEN <<exps[1].amount>>
             ELSE <<>>

RECURSIVE CategoryData(_, _)
\* category_data[category]: the amounts of the records of the category, in
\* input order
CategoryData(exps, category) ==
    IF exps = <<>> THEN <<>>
    ELSE (IF exps[1].category = category THEN <<exps[1].amount>> ELSE <<>>)
         \o CategoryData(Tail(exps), category)

\* faulty variant: records without a date are skipped when grouping
CategoryKeys_DatedOnly(exps) ==
    {exps[i].category : i \in {j \in 1..Len(exps) : exps[j].date # NoDate}}

\* the keys of category_data
CategoryKeys(exps) == {exps[i].category : i \in 1..Len(exps)}

\* faulty variant: the sample standard deviation (ddof=1) without the guard; of a
\* single amount it is the quotient 0/0, not a number
StdSqOf_SampleNoGuard(amounts) ==
    LET n == Len(amounts)
    IN  IF n > 1
        THEN Frac(n * SeqSumSq(amounts) - SeqSum(amounts) * SeqSum(amounts),
                  n * (n - 1))
        ELSE <<0, 0>>

\* 'std': np.std(amounts) if len(amounts) > 1 else 0.0
StdSqOf(amounts) ==
    IF Len(amounts) > 1 THEN NpStdSq(amounts) ELSE FracOfInt(0)

\* the dictionary stored under one category
CategoryStat(amounts) ==
    [total  |-> SeqSum(amounts),
     count  |-> Len(amounts),
     mean   |-> NpMean(amounts),
     median |-> NpMedian(amounts),
     min    |-> SeqMin(amounts),
     max    |-> SeqMax(amounts),
     std_sq |-> StdSqOf(amounts)]

calculate_category_stats(exps) ==
    IF exps = <<>> THEN <<>>
    ELSE [category \in CategoryKeys(exps) |->
             CategoryStat(CategoryData(exps, category))]

----------------------------------------------------------------------------
(* detect_outliers                                                         *)

\* two decimal digits
Pad2(n) == IF n < 10 THEN "0" \o ToString(n) ELSE ToString(n)

\* four decimal digits
Pad4(n) ==
    IF n < 10 THEN "000" \o ToString(n)
    ELSE IF n < 100 THEN "00" \o ToString(n)
    ELSE IF n < 1000 THEN "0" \o ToString(n)
    ELSE ToString(n)

\* date.isoformat(): 'YYYY-MM-DD'
IsoFormat(d) == Pad4(d[1]) \o "-" \o Pad2(d[2]) \o "-" \o Pad2(d[3])

\* faulty variant: expense.amount >= threshold
ExceedsThreshold_AtOrAbove(amount, mean, std_sq) ==
    LET t == FracSub(FracOfInt(amount), mean)
    IN  /\ ~FracLess(t, FracOfInt(0))
        /\ ~FracLess(FracMul(t, t), FracMul(FracOfInt(4), std_sq))

\* faulty variant: the threshold is mean + std
ExceedsThreshold_OneSigma(amount, mean, std_sq) ==
    LET t == FracSub(FracOfInt(amount), mean)
    IN  /\ FracLess(FracOfInt(0), t)
        /\ FracLess(std_sq, FracMul(t, t))

\* expense.amount > stats['mean'] + 2 * stats['std'], with std the
\* non-negative root of std_sq: the amount lies above the mean, and the
\* square of its distance from the mean is more than 4 * std_sq
ExceedsThreshold(amount, mean, std_sq) ==
    LET t == FracSub(FracOfInt(amount), mean)
    IN  /\ FracLess(FracOfInt(0), t)
        /\ FracLess(FracMul(FracOfInt(4), std_sq), FracMul(t, t))

\* the dictionary appended for a reported expense; 'threshold' is
\* mean + 2 * std, kept as the pair <<mean, (2 * std)^2>>
OutlierDict(expense, stats) ==
    [id          |-> expense.id,
     date        |-> IF expense.date # NoDate THEN IsoFormat(expense.date)
                     ELSE NoneStr,
     category    |-> expense.category,
     description |-> expense.description,
     amount      |-> expense.amount,
     threshold   |-> <<stats.mean, FracMul(FracOfInt(4), stats.std_sq)>>,
     mean        |-> stats.mean,
     std_sq      |-> stats.std_sq]

RECURSIVE OutlierLoop_Prepend(_, _)
\* faulty variant: outliers.insert(0, ...) in place of append
OutlierLoop_Prepend(exps, category_stats) ==
    IF exps = <<>> THEN <<>>
    ELSE LET expense == exps[1]
             rest == OutlierLoop_Prepend(Tail(exps), category_stats)
         IN  IF expense.category \notin DOMAIN category_stats THEN rest
             ELSE LET stats == category_stats[expense.category]
                  IN  IF ExceedsThreshold(expense.amount, stats.mean,
                                          stats.std_sq)
                      THEN rest \o <<OutlierDict(expense, stats)>>
                      ELSE rest

RECURSIVE OutlierLoop(_, _)
\* the loop over the expenses, in input order
OutlierLoop(exps, category_stats) ==
    IF exps = <<>> THEN <<>>
    ELSE LET expense == exps[1]
             rest == OutlierLoop(Tail(exps), category_stats)
         IN  IF expense.category \notin DOMAIN category_stats THEN rest
             ELSE LET stats == category_stats[expense.category]
                  IN  IF ExceedsThreshold(expense.amount, stats.mean,
                                          stats.std_sq)
                      THEN <<OutlierDict(expense, stats)>> \o rest
                      ELSE rest

detect_outliers(exps) ==
    IF exps = <<>> THEN <<>>
    ELSE OutlierLoop(exps, calculate_category_stats(exps))

----------------------------------------------------------------------------
(* Calendar dates (datetime.date) and timedelta arithmetic.                *)

IsLeap(y) == y % 4 = 0 /\ (y % 100 # 0 \/ y % 400 = 0)

DaysInMonth(y, m) ==
    IF m = 2 THEN (IF IsLeap(y) THEN 29 ELSE 28)
    ELSE IF m \in {4, 6, 9, 11} THEN 30
    ELSE 31

\* a <= b on dates
DateLE(a, b) ==
    \/ a[1] < b[1]
    \/ a[1] = b[1] /\ a[2] < b[2]
    \/ a[1] = b[1] /\ a[2] = b[2] /\ a[3] <= b[3]

\* d + timedelta(days=1)
NextDay(d) ==
    IF d[3] < DaysInMonth(d[1], d[2]) THEN <<d[1], d[2], d[3] + 1>>
    ELSE IF d[2] < 12 THEN <<d[1], d[2] + 1, 1>>
    ELSE <<d[1] + 1, 1, 1>>

\* d - timedelta(days=1)
PrevDay(d) ==
    IF d[3] > 1 THEN <<d[1], d[2], d[3] - 1>>
    ELSE IF d[2] > 1 THEN <<d[1], d[2] - 1, DaysInMonth(d[1], d[2] - 1)>>
    ELSE <<d[1] - 1, 12, 31>>

RECURSIVE PlusDays(_, _)
\* d + timedelta(days=n), n >= 0
PlusDays(d, n) == IF n = 0 THEN d ELSE PlusDays(NextDay(d), n - 1)

----------------------------------------------------------------------------
(* calculate_mom_growth                                                    *)

\* date.today(), read when current_month or target_month is None
Today == <<2024, 2, 20>>

\* the first and last day of the month of current_month and of the month
\* before it
MonthRanges(cm) ==
    LET current_start == <<cm[1], cm[2], 1>>
        prev_start == IF cm[2] = 1 THEN <<cm[1] - 1, 12, 1>>
                      ELSE <<cm[1], cm[2] - 1, 1>>
        prev_end == IF cm[2] = 1 THEN <<cm[1] - 1, 12, 31>>
                    ELSE PrevDay(<<cm[1], cm[2], 1>>)
        plus32 == PlusDays(current_start, 32)
        current_end == PrevDay(<<plus32[1], plus32[2], 1>>)
    IN  [current_start |-> current_start, current_end |-> current_end,
         prev_start |-> prev_start, prev_end |-> prev_end]

\* faulty variant: the last day of each month is left out (< in place of <=)
Bucket_ExclusiveEnd(expense, r) ==
    IF expense.date = NoDate THEN "none"
    ELSE IF DateLE(r.prev_start, expense.date)
            /\ ~DateLE(r.prev_end, expense.date) THEN "prev"
    ELSE IF DateLE(r.current_start, expense.date)
            /\ ~DateLE(r.current_end, expense.date) THEN "current"
    ELSE "none"

\* the bucket the loop adds an expense to: "prev", "current" or "none"
Bucket(expense, r) ==
    IF expense.date = NoDate THEN "none"
    ELSE IF DateLE(r.prev_start, expense.date)
            /\ DateLE(expense.date, r.prev_end) THEN "prev"
    ELSE IF DateLE(r.current_start, expense.date)
            /\ DateLE(expense.date, r.current_end) THEN "current"
    ELSE "none"

RECURSIVE BucketTotal(_, _, _, _)
\* the total accumulated for a category in one bucket
BucketTotal(exps, r, which, category) ==
    IF exps = <<>> THEN 0
    ELSE (IF Bucket(exps[1], r) = which /\ exps[1].category = category
          THEN exps[1].amount ELSE 0)
         + BucketTotal(Tail(exps), r, which, category)

\* faulty variant: every category of the input gets a key, with total 0 when it
\* has no expense in the bucket
MonthData_AllKeys(exps, r, which) ==
    [category \in CategoryKeys(exps)
        |-> BucketTotal(exps, r, which, category)]

\* current_month_data / prev_month_data: a key exists for every category
\* that had an expense added to the bucket
MonthData(exps, r, which) ==
    [category \in {exps[i].category :
                     i \in {j \in 1..Len(exps) : Bucket(exps[j], r) = which}}
        |-> BucketTotal(exps, r, which, category)]

\* dict.get(category, 0)
GetOrZero(data, category) ==
    IF category \in DOMAIN data THEN data[category] ELSE 0

\* float('inf')
Inf == [inf |-> TRUE, value |-> <<1, 0>>]
\* a finite float
Finite(q) == [inf |-> FALSE, value |-> q]

\* faulty variant: a new category counts as a growth of 100 percent
Growth_NewCategoryHundred(prev_total, current_total) ==
    IF prev_total = 0
    THEN IF current_total > 0 THEN Finite(FracOfInt(100))
         ELSE Finite(FracOfInt(0))
    ELSE Finite(Frac((current_total - prev_total) * 100, prev_total))

\* faulty variant: the difference is taken the other way round
Growth_Reversed(prev_total, current_total) ==
    IF prev_total = 0
    THEN IF current_total > 0 THEN Inf ELSE Finite(FracOfInt(0))
    ELSE Finite(Frac((prev_total - current_total) * 100, prev_total))

\* faulty variant: the quotient is taken whatever prev_total is
Growth_NoZeroGuard(prev_total, current_total) ==
    IF prev_total = 0
    THEN Finite(<<(current_total - prev_total) * 100, 0>>)
    ELSE Finite(Frac((current_total - prev_total) * 100, prev_total))

\* the growth stored for one category
Growth(prev_total, current_total) ==
    IF prev_total = 0
    THEN IF current_total > 0 THEN Inf ELSE Finite(FracOfInt(0))
    ELSE Finite(Frac((current_total - prev_total) * 100, prev_total))

calculate_mom_growth(exps, cm) ==
    IF exps = <<>> THEN <<>>
    ELSE LET r == MonthRanges(IF cm = NoDate THEN Today ELSE cm)
             current_month_data == MonthData(exps, r, "current")
             prev_month_data == MonthData(exps, r, "prev")
             all_categories == DOMAIN current_month_data
                               \cup DOMAIN prev_month_data
         IN  [category \in all_categories |->
                 Growth(GetOrZero(prev_month_data, category),
                        GetOrZero(current_month_data, category))]

----------------------------------------------------------------------------
(* predict_monthly_expense                                                 *)

\* the keys of monthly_data: the (year, month) of the records with a date
MonthKeys(exps) ==
    {<<exps[i].date[1], exps[i].date[2]>> :
        i \in {j \in 1..Len(exps) : exps[j].date # NoDate}}

\* `category in month_data`: some dated record of the month is of the
\* category (the key exists whatever the amounts add up to)
InMonthData(exps, month_key, category) ==
    \E i \in 1..Len(exps) :
        /\ exps[i].date # NoDate
        /\ <<exps[i].date[1], exps[i].date[2]>> = month_key
        /\ exps[i].category = category

RECURSIVE MonthlyData(_, _, _)
\* monthly_data[month_key][category]
MonthlyData(exps, month_key, category) ==
    IF exps = <<>> THEN 0
    ELSE (IF /\ exps[1].date # NoDate
             /\ <<exps[1].date[1], exps[1].date[2]>> = month_key
             /\ exps[1].category = category
          THEN exps[1].amount ELSE 0)
         + MonthlyData(Tail(exps), month_key, category)

\* all_categories
AllCategories(exps) ==
    {exps[i].category : i \in {j \in 1..Len(exps) : exps[j].date # NoDate}}

\* min(monthly_data.keys()): tuples compare by year, then by month
MinMonthKey(keys) ==
    CHOOSE k \in keys :
        \A o \in keys : k[1] < o[1] \/ (k[1] = o[1] /\ k[2] <= o[2])

\* faulty variant: the year is ignored when counting months
MonthsSinceStart_MonthOnly(key, min_key) == key[2] - min_key[2]

\* months_since_start[(year, month)], and target_months
MonthsSinceStart(key, min_key) ==
    (key[1] - min_key[1]) * 12 + (key[2] - min_key[2])

\* X and y of a category, as the set of the points <<x, y>>; the x of two
\* months differ
Points(exps, category) ==
    LET min_key == MinMonthKey(MonthKeys(exps))
    IN  {<<MonthsSinceStart(k, min_key), MonthlyData(exps, k, category)>> :
            k \in {m \in MonthKeys(exps) : InMonthData(exps, m, category)}}

RECURSIVE SumOver(_, _, _)
\* the sum of x^a * y^b over the points
SumOver(pts, a, b) ==
    IF pts = {} THEN 0
    ELSE LET p == CHOOSE q \in pts : TRUE
         IN  (IF a = 0 THEN 1 ELSE IF a = 1 THEN p[1] ELSE p[1] * p[1])
             * (IF b = 0 THEN 1 ELSE p[2])
             + SumOver(pts \ {p}, a, b)

\* faulty variant: a category with too few months is predicted as 0.0
MeanOfPoints_Zero(pts) == FracOfInt(0)

\* np.mean(y)
MeanOfPoints(pts) == Frac(SumOver(pts, 0, 1), Cardinality(pts))

\* LinearRegression().fit(X, y).predict([[t]])[0]: the least-squares line
\* through the points, at t; with n points, slope
\* (n*Sxy - Sx*Sy) / (n*Sxx - Sx^2) and intercept (Sy - slope*Sx) / n
LinearPrediction(pts, t) ==
    LET n   == Cardinality(pts)
        Sx  == SumOver(pts, 1, 0)
        Sy  == SumOver(pts, 0, 1)
        Sxx == SumOver(pts, 2, 0)
        Sxy == SumOver(pts, 1, 1)
        D   == n * Sxx - Sx * Sx
    IN  Frac(Sy * D + (n * Sxy - Sx * Sy) * (n * t - Sx), n * D)

\* faulty variant: the prediction is stored as it is
NonNegative_Unclamped(prediction) == prediction

\* max(0, prediction)
NonNegative(prediction) ==
    IF FracLess(FracOfInt(0), prediction) THEN prediction ELSE FracOfInt(0)

\* predictions[category].  The fit of two or more points with different x
\* does not raise, so the `except` branch is never taken.
CategoryPrediction(exps, category, target) ==
    LET pts     == Points(exps, category)
        min_key == MinMonthKey(MonthKeys(exps))
        target_months ==
            MonthsSinceStart(<<target[1], target[2]>>, min_key)
    IN  IF Cardinality(pts) < 2 THEN MeanOfPoints(pts)
        ELSE NonNegative(LinearPrediction(pts, target_months))

predict_monthly_expense(exps, tm) ==
    LET target == IF tm = NoDate THEN Today ELSE tm
    IN  IF exps = <<>> THEN <<>>
        ELSE IF MonthKeys(exps) = {} THEN <<>>
        ELSE [category \in AllCategories(exps) |->
                 CategoryPrediction(exps, category, target)]

----------------------------------------------------------------------------
(* parse_date                                                              *)
(*                                                                         *)
(* A str is the sequence of its characters.  The argument is               *)
(* [type |-> "none"] for None, [type |-> "str", chars |-> s] for a str,    *)
(* [type |-> "date", date |-> d] for a datetime.date and                   *)
(* [type |-> "datetime", date |-> d, time |-> t] for a datetime.datetime   *)
(* (a subclass of date).  A raised ValueError is a value of type "error".  *)
(* fromisoformat is modelled for the extended format (YYYY-MM-DD,          *)
(* hh:mm:ss); the inputs hold no string in the basic or the week format.   *)

Digit == <<"0", "1", "2", "3", "4", "5", "6", "7", "8", "9">>

IsDigit(c) == \E i \in 1..10 : Digit[i] = c

\* int(c) of a digit
DigitValue(c) == (CHOOSE i \in 1..10 : Digit[i] = c) - 1

RECURSIVE Number(_)
\* int(s) of a string of digits
Number(s) ==
    IF s = <<>> THEN 0
    ELSE 10 * Number(SubSeq(s, 1, Len(s) - 1)) + DigitValue(s[Len(s)])

AllDigits(s) == \A i \in 1..Len(s) : IsDigit(s[i])

\* the characters str.strip() removes
Whitespace == {" ", "\t"}

RECURSIVE LStrip(_)
LStrip(s) ==
    IF s # <<>> /\ s[1] \in Whitespace THEN LStrip(Tail(s)) ELSE s

RECURSIVE RStrip(_)
RStrip(s) ==
    IF s # <<>> /\ s[Len(s)] \in Whitespace
    THEN RStrip(SubSeq(s, 1, Len(s) - 1)) ELSE s

\* s.strip()
Strip(s) == RStrip(LStrip(s))

\* c in s
Contains(s, c) == \E i \in 1..Len(s) : s[i] = c

\* s.split(c)[0]: what is before the first c
SplitFirst(s, c) ==
    IF ~Contains(s, c) THEN s
    ELSE LET i == CHOOSE j \in 1..Len(s) :
                      s[j] = c /\ \A k \in 1..(j - 1) : s[k] # c
         IN  SubSeq(s, 1, i - 1)

RECURSIVE ReplaceZ(_)
\* s.replace('Z', '+00:00')
ReplaceZ(s) ==
    IF s = <<>> THEN <<>>
    ELSE (IF s[1] = "Z" THEN <<"+", "0", "0", ":", "0", "0">> ELSE <<s[1]>>)
         \o ReplaceZ(Tail(s))

DateValue(d) == [type |-> "date", date |-> d]
DateTimeValue(d, t) == [type |-> "datetime", date |-> d, time |-> t]
StrValue(s) == [type |-> "str", chars |-> s]
NoneValue == [type |-> "none"]

\* ValueError(message): `quotes` holds the strings the message quotes,
\* `detail` the message of another error the message ends with ("" when
\* none), `context` the error that was being handled when this one was
\* raised (__context__), <<>> when none
ValueError(message, quotes, detail) ==
    [type |-> "error", message |-> message, quotes |-> quotes,
     detail |-> detail, context |-> <<>>]

\* an error raised inside the `except` block that handles `handled`
RaisedWhileHandling(err, handled) == [err EXCEPT !.context = <<handled>>]

IsError(v) == v.type = "error"

\* YYYY-MM-DD
DateShape(s) ==
    /\ Len(s) = 10
    /\ AllDigits(SubSeq(s, 1, 4)) /\ s[5] = "-"
    /\ AllDigits(SubSeq(s, 6, 7)) /\ s[8] = "-"
    /\ AllDigits(SubSeq(s, 9, 10))

\* date.fromisoformat(s)
DateFromIso(s) ==
    IF ~DateShape(s)
    THEN ValueError("Invalid isoformat string", <<s>>, "")
    ELSE LET y == Number(SubSeq(s, 1, 4))
             m == Number(SubSeq(s, 6, 7))
             d == Number(SubSeq(s, 9, 10))
         IN  IF y < 1
             THEN ValueError("year is out of range", <<>>, "")
             ELSE IF m \notin 1..12
             THEN ValueError("month must be in 1..12", <<>>, "")
             ELSE IF d \notin 1..DaysInMonth(y, m)
             THEN ValueError("day is out of range for month", <<>>, "")
             ELSE DateValue(<<y, m, d>>)

\* hh, hh:mm or hh:mm:ss
ClockShape(s) ==
    /\ Len(s) \in {2, 5, 8}
    /\ \A i \in 1..Len(s) : IF i % 3 = 0 THEN s[i] = ":" ELSE IsDigit(s[i])

\* the hours, minutes and seconds of a string of ClockShape
ClockOf(s) ==
    <<Number(SubSeq(s, 1, 2)),
      IF Len(s) >= 5 THEN Number(SubSeq(s, 4, 5)) ELSE 0,
      IF Len(s) >= 8 THEN Number(SubSeq(s, 7, 8)) ELSE 0>>

\* the time of day without a UTC offset: a final Z or +hh:mm / -hh:mm
WithoutOffset(s) ==
    IF s # <<>> /\ s[Len(s)] = "Z" THEN SubSeq(s, 1, Len(s) - 1)
    ELSE IF /\ Len(s) >= 8
            /\ s[Len(s) - 5] \in {"+", "-"}
            /\ ClockShape(SubSeq(s, Len(s) - 4, Len(s)))
    THEN SubSeq(s, 1, Len(s) - 6)
    ELSE s

\* datetime.fromisoformat(s): a date, one separator character and a time
\* of day
DateTimeFromIso(s) ==
    LET day == DateFromIso(SubSeq(s, 1, 10))
        clock == WithoutOffset(SubSeq(s, 12, Len(s)))
    IN  IF Len(s) < 10 \/ ~DateShape(SubSeq(s, 1, 10))
        THEN ValueError("Invalid isoformat string", <<s>>, "")
        ELSE IF Len(s) = 10
        THEN (IF IsError(day) THEN day
              ELSE DateTimeValue(day.date, <<0, 0, 0>>))
        ELSE IF ~ClockShape(clock)
        THEN ValueError("Invalid isoformat string", <<s>>, "")
        ELSE IF IsError(day) THEN day
        ELSE IF ClockOf(clock)[1] > 23
        THEN ValueError("hour must be in 0..23", <<>>, "")
        ELSE IF ClockOf(clock)[2] > 59
        THEN ValueError("minute must be in 0..59", <<>>, "")
        ELSE IF ClockOf(clock)[3] > 59
        THEN ValueError("second must be in 0..59", <<>>, "")
        ELSE DateTimeValue(day.date, ClockOf(clock))

\* dt.date()
DateOf(dt) == DateValue(dt.date)

\* The branches for a string with a 'T' (split on "T", Z replaced) and for
\* one with a space (split on " ", Z kept): the date before the
\* separator, else the whole string as a date-time, else the stripped
\* date part; the error of the last attempt is raised as it is.
ParseDateTime(s, sep, whole) ==
    LET date_part == SplitFirst(s, sep)
        first  == DateFromIso(date_part)
        second == DateTimeFromIso(whole)
        third  == DateFromIso(Strip(date_part))
    IN  IF ~IsError(first) THEN first
        ELSE IF ~IsError(second) THEN DateOf(second)
        ELSE IF ~IsError(third) THEN third
        ELSE RaisedWhileHandling(third,
                 RaisedWhileHandling(second, first))

\* the last branch: the string as a date; its error is wrapped in one that
\* quotes date_str and ends with str(e)
ParsePlain(s) ==
    LET only == DateFromIso(s)
    IN  IF ~IsError(only) THEN only
        ELSE RaisedWhileHandling(
                 ValueError("cannot parse the date format", <<s>>,
                            only.message),
                 only)

\* faulty variant: only the last branch, without the date-time forms
parse_date_PlainOnly(x) ==
    IF x.type \in {"date", "datetime"} THEN x
    ELSE IF x.type = "none" THEN ValueError("the date is None", <<>>, "")
    ELSE LET s == Strip(x.chars)
         IN  IF s = <<>>
             THEN ValueError("the date string is empty", <<>>, "")
             ELSE ParsePlain(s)

parse_date(x) ==
    IF x.type \in {"date", "datetime"} THEN x
    ELSE IF x.type = "none" THEN ValueError("the date is None", <<>>, "")
    ELSE LET s == Strip(x.chars)
         IN  IF s = <<>>
             THEN ValueError("the date string is empty", <<>>, "")
             ELSE IF Contains(s, "T")
             THEN ParseDateTime(s, "T", ReplaceZ(s))
             ELSE IF Contains(s, " ")
             THEN ParseDateTime(s, " ", s)
             ELSE ParsePlain(s)

\* the two digits of n < 100
TwoDigits(n) == <<Digit[(n \div 10) + 1], Digit[(n % 10) + 1]>>

\* date.isoformat() as a str: 'YYYY-MM-DD'
DateIsoFormat(d) ==
    TwoDigits(d[1] \div 100) \o TwoDigits(d[1] % 100) \o <<"-">>
    \o TwoDigits(d[2]) \o <<"-">> \o TwoDigits(d[3])

\* datetime.isoformat() as a str: 'YYYY-MM-DDThh:mm:ss'
DateTimeIsoFormat(d, t) ==
    DateIsoFormat(d) \o <<"T">> \o TwoDigits(t[1]) \o <<":">>
    \o TwoDigits(t[2]) \o <<":">> \o TwoDigits(t[3])

\* v.isoformat() of a date or a datetime
IsoFormatOf(v) ==
    IF v.type = "datetime" THEN DateTimeIsoFormat(v.date, v.time)
    ELSE DateIsoFormat(v.date)

----------------------------------------------------------------------------
(* Inputs.                                                                 *)

\* an Expense (src/database/models.py); created_at is not read by the
\* analytics and is left out
Expense(id, date, category, description, amount, merchant) ==
    [id |-> id, date |-> date, category |-> category,
     description |-> description, amount |-> amount, merchant |-> merchant]

\* the kinds of record an input list is drawn from
Kinds(dates, amounts) == dates \X Categories \X amounts

\* the list of the records of the kinds f[1], ..., f[k]; ids are the
\* positions, as assigned by the storage
ListOf(f, k) ==
    [i \in 1..k |-> Expense(i, f[i][1], f[i][2], "item", f[i][3], NoneStr)]

StatsKinds == Kinds({NoDate, <<2024, 2, 10>>}, {100, 500, 501})

OutlierKinds ==
    { <<<<2024, 2, 10>>, "food", a>> : a \in {100, 500, 501} }
    \cup { <<<<2024, 2, 10>>, "transport", a>> : a \in {100, 500} }

\* one category, few large amounts among many small ones: the lists long
\* enough for several outliers
RunKinds == {<<<<2024, 2, 10>>, "food", 100>>, <<NoDate, "food", 500>>}

GrowthKinds == Kinds({<<2024, 1, 15>>, <<2024, 2, 10>>}, {0, 100, 150, 200})

\* the (date, amount) pairs of the month bucketing: no date, days inside
\* January and February 2024, and the days around the ends of December
\* 2023, January 2024 and February 2024
BucketDated ==
    { <<NoDate, 70>>,
      <<<<2024, 1, 10>>, 50>>, <<<<2024, 1, 15>>, 60>>,
      <<<<2024, 2, 10>>, 40>>,
      <<<<2023, 11, 30>>, 1>>, <<<<2023, 12, 1>>, 2>>,
      <<<<2023, 12, 31>>, 4>>, <<<<2024, 1, 1>>, 8>>,
      <<<<2024, 1, 31>>, 16>>, <<<<2024, 2, 1>>, 32>>,
      <<<<2024, 2, 29>>, 64>>, <<<<2024, 3, 1>>, 128>> }

BucketKinds ==
    { <<da[1], "food", da[2]>> : da \in BucketDated }
    \cup { <<<<2024, 1, 31>>, "transport", 16>>,
           <<<<2024, 2, 1>>, "transport", 32>> }

\* the reference dates passed as current_month (None: today)
RefDates == {NoDate, <<2024, 2, 15>>, <<2024, 1, 20>>, <<2024, 3, 31>>}

\* the records of the forecast: food in three months of two years, with a
\* month of total 0 and a record without a date; transport in an earlier
\* month
ForecastKinds ==
    {<<<<2023, 11, 15>>, "food", 100>>, <<<<2023, 11, 15>>, "food", 300>>,
     <<<<2023, 12, 20>>, "food", 200>>, <<<<2023, 12, 20>>, "food", 0>>,
     <<<<2024, 1, 10>>, "food", 300>>, <<<<2024, 1, 10>>, "food", 100>>,
     <<NoDate, "food", 100>>,
     <<<<2023, 10, 5>>, "transport", 50>>}

\* the values of target_month: None, a month after the data and one before
TargetMonths == {NoDate, <<2024, 4, 1>>, <<2023, 9, 15>>}

\* the records given to all four functions: two categories in two months
\* that follow each other, and a record without a date
AllKinds ==
    {<<<<2024, 1, 15>>, "food", 100>>, <<<<2024, 2, 10>>, "food", 100>>,
     <<<<2024, 2, 10>>, "food", 500>>, <<NoDate, "food", 100>>,
     <<<<2024, 1, 15>>, "transport", 500>>,
     <<<<2024, 2, 10>>, "transport", 100>>}

\* six records of one category, the last of them an outlier
SixRecords ==
    <<Expense(1, <<2024, 1, 15>>, "food", "item", 100, NoneStr),
      Expense(2, <<2024, 1, 15>>, "food", "item", 100, NoneStr),
      Expense(3, <<2024, 2, 10>>, "food", "item", 100, NoneStr),
      Expense(4, <<2024, 2, 10>>, "food", "item", 100, NoneStr),
      Expense(5, NoDate, "food", "item", 100, NoneStr),
      Expense(6, <<2024, 2, 10>>, "food", "item", 500, NoneStr)>>

\* the list exps in the order p
Permute(exps, p) == [i \in 1..Len(exps) |-> exps[p[i]]]

\* the date parts: two dates, a day and a month out of range, a date
\* without the leading zeros and nothing
DateParts ==
    {<<"2", "0", "2", "4", "-", "0", "3", "-", "0", "5">>,
     <<"2", "0", "2", "4", "-", "0", "2", "-", "2", "9">>,
     <<"2", "0", "2", "3", "-", "0", "2", "-", "2", "9">>,
     <<"2", "0", "2", "4", "-", "1", "3", "-", "0", "5">>,
     <<"2", "0", "2", "4", "-", "3", "-", "5">>,
     <<>>}

\* what follows the date part
Separators ==
    {<<>>,
     <<"T">>,
     <<" ">>,
     <<" ", "T">>,
     <<"\t", " ">>}

\* the times of day
TimeParts ==
    {<<>>,
     <<"0", "0", ":", "0", "0", ":", "0", "0">>,
     <<"1", "0", ":", "3", "0", ":", "0", "0", "Z">>,
     <<"2", "5", ":", "0", "0">>}

\* the white space before and after
Margins ==
    {<<>>,
     <<" ">>}

\* the strings parse_date is applied to
ParseStrings ==
    {p[1] \o p[2] \o p[3] \o p[4] \o p[5] :
        p \in Margins \X DateParts \X Separators \X TimeParts \X Margins}

\* the values parse_date is applied to: None, a date, a datetime at and
\* after midnight, and the strings
ParseInputs ==
    {NoneValue, DateValue(<<2024, 3, 5>>), DateValue(<<2024, 2, 29>>),
     DateTimeValue(<<2024, 3, 5>>, <<0, 0, 0>>),
     DateTimeValue(<<2024, 3, 5>>, <<10, 30, 0>>)}
    \cup {StrValue(s) : s \in ParseStrings}

----------------------------------------------------------------------------
(* DatabaseManager (src/database/db_manager.py) on the table `expenses`    *)
(* (CREATE_EXPENSES_TABLE, src/database/models.py).                        *)
(*                                                                         *)
(* The table is a function from the ids of its rows to the rows; a row is  *)
(* a record of its columns, the date column holding the text the code      *)
(* stores, date.isoformat().  created_at is left out, NULL is NoneStr.     *)
(* `sequence` is the largest id the table has ever given (the row of       *)
(* sqlite_sequence that AUTOINCREMENT keeps).  Arguments that are None are *)
(* left out of the record of the arguments.                                *)

\* the characters of the stored dates in the order of their code points
CodePoints ==
    <<"-", "0", "1", "2", "3", "4", "5", "6", "7", "8", "9", ":", "T">>

CodePoint(c) == CHOOSE i \in 1..Len(CodePoints) : CodePoints[i] = c

RECURSIVE TextLE(_, _)
\* a <= b for two TEXT values: by the first character that differs
TextLE(a, b) ==
    IF a = <<>> THEN TRUE
    ELSE IF b = <<>> THEN FALSE
    ELSE IF a[1] # b[1] THEN CodePoint(a[1]) < CodePoint(b[1])
    ELSE TextLE(Tail(a), Tail(b))

\* the row INSERT stores
StoredRow(date, category, description, amount, merchant) ==
    [date |-> DateIsoFormat(date), category |-> category,
     description |-> description, amount |-> amount, merchant |-> merchant]

\* faulty variant: the id after the largest id in the table (no AUTOINCREMENT)
NextId_Reusing(tbl, seq) ==
    IF DOMAIN tbl = {} THEN 1
    ELSE (CHOOSE i \in DOMAIN tbl : \A j \in DOMAIN tbl : j <= i) + 1

\* cursor.lastrowid of the INSERT: ids only grow
NextId(tbl, seq) == seq + 1

\* add_expense: the table and the sequence after the INSERT, and the id
\* returned
add_expense(tbl, seq, a) ==
    LET id == NextId(tbl, seq)
    IN  [table    |-> [i \in DOMAIN tbl \cup {id} |->
                          IF i = id
                          THEN StoredRow(a.date, a.category, a.description,
                                         a.amount, a.merchant)
                          ELSE tbl[i]],
         sequence |-> IF id > seq THEN id ELSE seq,
         returned |-> id]

\* Expense(...) of a row: the date is parsed back
ExpenseOf(tbl, id) ==
    Expense(id, parse_date(StrValue(tbl[id].date)).date, tbl[id].category,
            tbl[id].description, tbl[id].amount, tbl[id].merchant)

\* faulty variant: date < ? for the end of the range
InRange_EndExclusive(text, start_date, end_date) ==
    /\ start_date # NoDate => TextLE(DateIsoFormat(start_date), text)
    /\ end_date # NoDate => /\ TextLE(text, DateIsoFormat(end_date))
                            /\ text # DateIsoFormat(end_date)

\* the WHERE clause of the four queries of get_expenses
InRange(text, start_date, end_date) ==
    /\ start_date # NoDate => TextLE(DateIsoFormat(start_date), text)
    /\ end_date # NoDate => TextLE(text, DateIsoFormat(end_date))

\* ORDER BY date DESC on the rows ids: the lists of all of them in which
\* no date is followed by a later one; rows of one date come in any order
OrderByDateDesc(tbl, ids) ==
    {s \in [1..Cardinality(ids) -> ids] :
        /\ \A i, j \in 1..Cardinality(ids) : i # j => s[i] # s[j]
        /\ \A i, j \in 1..Cardinality(ids) :
               i < j => TextLE(tbl[s[j]].date, tbl[s[i]].date)}

\* get_expenses: the lists it may return
get_expenses(tbl, start_date, end_date) ==
    LET ids == {i \in DOMAIN tbl : InRange(tbl[i].date, start_date, end_date)}
    IN  {[k \in 1..Cardinality(ids) |-> ExpenseOf(tbl, s[k])] :
            s \in OrderByDateDesc(tbl, ids)}

\* get_expense_by_id: the Expense of the row, or None
get_expense_by_id(tbl, expense_id) ==
    IF expense_id \notin DOMAIN tbl THEN NoneValue
    ELSE ExpenseOf(tbl, expense_id)

\* the columns update_expense can set
Columns == {"date", "category", "description", "amount", "merchant"}

\* faulty variant: merchant = ? is always part of the UPDATE
update_expense_ClearsMerchant(tbl, expense_id, a) ==
    IF DOMAIN a = {} THEN [table |-> tbl, returned |-> FALSE]
    ELSE IF expense_id \notin DOMAIN tbl
    THEN [table |-> tbl, returned |-> FALSE]
    ELSE [table |->
              [tbl EXCEPT ![expense_id] =
                  [c \in Columns |->
                      IF c = "merchant" /\ c \notin DOMAIN a THEN NoneStr
                      ELSE IF c \notin DOMAIN a THEN @[c]
                      ELSE IF c = "date" THEN DateIsoFormat(a.date)
                      ELSE a[c]]],
          returned |-> TRUE]

\* update_expense: the columns whose argument is given are set on the row
\* of the id; rowcount is the number of rows the WHERE clause finds
update_expense(tbl, expense_id, a) ==
    IF DOMAIN a = {} THEN [table |-> tbl, returned |-> FALSE]
    ELSE IF expense_id \notin DOMAIN tbl
    THEN [table |-> tbl, returned |-> FALSE]
    ELSE [table |->
              [tbl EXCEPT ![expense_id] =
                  [c \in Columns |->
                      IF c \notin DOMAIN a THEN @[c]
                      ELSE IF c = "date" THEN DateIsoFormat(a.date)
                      ELSE a[c]]],
          returned |-> TRUE]

\* faulty variant: True whether or not a row was deleted
delete_expense_AlwaysTrue(tbl, expense_id) ==
    [table |-> [i \in DOMAIN tbl \ {expense_id} |-> tbl[i]],
     returned |-> TRUE]

\* delete_expense
delete_expense(tbl, expense_id) ==
    [table |-> [i \in DOMAIN tbl \ {expense_id} |-> tbl[i]],
     returned |-> expense_id \in DOMAIN tbl]

----------------------------------------------------------------------------
(* The handlers that write to the storage (src/main.py,                    *)
(* src/agents/db_agent.py).  The text they handle is kept as typed values  *)
(* of strings of characters; None is NoneValue.                            *)

\* float('nan'): the value pandas.read_csv gives for an empty cell
NaN == [type |-> "nan"]

FloatValue(n) == [type |-> "float", value |-> n]

\* the value read_csv gives for the text of a cell
ReadCell(text) == IF text = <<>> THEN NaN ELSE StrValue(text)

\* pd.read_csv: the columns of the header, and for each line the values
\* of its cells
read_csv(file) ==
    [columns |-> file.columns,
     rows    |-> [i \in 1..Len(file.rows) |->
                     [c \in file.columns |-> ReadCell(file.rows[i][c])]]]

\* str(v) of a cell
StrOf(v) == IF v = NaN THEN <<"n", "a", "n">> ELSE v.chars

\* float(v) of a cell: the number, nan for nan, ValueError for text that
\* is not a number
FloatOf(v) ==
    IF v = NaN THEN NaN
    ELSE IF v.chars # <<>> /\ AllDigits(v.chars)
    THEN FloatValue(Number(v.chars))
    ELSE IF Len(v.chars) > 1 /\ v.chars[1] = "-" /\ AllDigits(Tail(v.chars))
    THEN FloatValue(0 - Number(Tail(v.chars)))
    ELSE ValueError("could not convert string to float", <<v.chars>>, "")

\* the categories category_classifier.classify returns
DefaultCategories ==
    {StrValue(<<"f", "o", "o", "d">>), StrValue(<<"e", "t", "c">>)}

\* the state of the loop of upload_csv before the first row; stored and
\* classified record which rows were inserted (under which id) and for
\* which rows the classifier was called
UploadStart(tbl, seq) ==
    [table |-> tbl, sequence |-> seq, missing_columns |-> {},
     success_count |-> 0, error_count |-> 0, error_messages |-> <<>>,
     stored |-> <<>>, classified |-> {}]

\* error_count += 1; error_messages.append(...)
RowError(st, idx, error) ==
    [st EXCEPT !.error_count = @ + 1,
               !.error_messages = Append(@, [row |-> idx, error |-> error])]

\* amount <= 0
AmountRejected(amount) == amount.type = "float" /\ amount.value <= 0

\* the body of the loop for the row idx; category is what classify
\* returns if it is called
UploadRow(df, idx, st, classified_as) ==
    LET row          == df.rows[idx]
        date_str_    == Strip(StrOf(row.date))
        expense_date == parse_date(StrValue(date_str_))
        description  == Strip(StrOf(row.description))
        amount       == FloatOf(row.amount)
        category     == IF "category" \in df.columns
                        THEN StrValue(Strip(StrOf(row.category)))
                        ELSE NoneValue
        merchant     == IF "merchant" \in df.columns
                        THEN StrValue(Strip(StrOf(row.merchant)))
                        ELSE NoneValue
        classify     == category = NoneValue \/ category = StrValue(<<>>)
        r == add_expense(st.table, st.sequence,
                 [date        |-> expense_date.date,
                  category    |-> IF classify THEN classified_as
                                  ELSE category,
                  description |-> StrValue(description),
                  amount      |-> amount.value,
                  merchant    |-> IF merchant = StrValue(<<>>)
                                  THEN NoneValue ELSE merchant])
    IN  IF IsError(expense_date) THEN RowError(st, idx, "date")
        ELSE IF description = <<>> THEN RowError(st, idx, "description")
        ELSE IF IsError(amount) THEN RowError(st, idx, "exception")
        ELSE IF AmountRejected(amount) THEN RowError(st, idx, "amount")
        ELSE IF amount = NaN
        THEN \* NOT NULL constraint failed: expenses.amount
             [RowError(st, idx, "exception") EXCEPT
                 !.classified = IF classify THEN @ \cup {idx} ELSE @]
        ELSE [st EXCEPT !.table = r.table,
                        !.sequence = r.sequence,
                        !.success_count = @ + 1,
                        !.stored = Append(@, [row |-> idx,
                                              id |-> r.returned]),
                        !.classified = IF classify THEN @ \cup {idx} ELSE @]

RECURSIVE UploadRows(_, _, _, _)
\* for idx, row in df.iterrows(), from the row idx on
UploadRows(df, idx, st, cls) ==
    IF idx > Len(df.rows) THEN st
    ELSE UploadRows(df, idx + 1, UploadRow(df, idx, st, cls[idx]), cls)

\* upload_csv of a file: what is stored and what is reported
upload_csv(tbl, seq, file, cls) ==
    LET df == read_csv(file)
        missing_columns ==
            {"date", "description", "amount"} \ df.columns
    IN  IF missing_columns # {}
        THEN [UploadStart(tbl, seq) EXCEPT
                 !.missing_columns = missing_columns]
        ELSE UploadRows(df, 1, UploadStart(tbl, seq), cls)

\* not v, for a str or None
Falsy(v) == v = NoneValue \/ v = StrValue(<<>>)

\* not v or not v.strip()
Blank(v) == Falsy(v) \/ Strip(v.chars) = <<>>

\* v.strip() if v and v.strip() else None
StrippedOrNone(v) == IF Blank(v) THEN NoneValue ELSE StrValue(Strip(v.chars))

\* not amount or amount <= 0, for a float or None
AmountInvalid(amount) ==
    \/ amount = NoneValue
    \/ amount.type = "float" /\ amount.value <= 0

\* what a handler returns: the table and the sequence after it, its
\* message, and the ids of the rows it inserted or updated
Outcome(tbl, seq, message, written) ==
    [table |-> tbl, sequence |-> seq, message |-> message,
     written |-> written]

\* add_expense of src/main.py; a.classified_as is what classify returns
\* if it is called
main_add_expense(tbl, seq, a) ==
    LET date_obj       == parse_date(a.expense_date)
        final_category == StrippedOrNone(a.category)
        final_merchant == StrippedOrNone(a.merchant)
        r == add_expense(tbl, seq,
                 [date        |-> date_obj.date,
                  category    |-> IF final_category # NoneValue
                                  THEN final_category ELSE a.classified_as,
                  description |-> a.description,
                  amount      |-> a.amount.value,
                  merchant    |-> final_merchant])
    IN  IF Falsy(a.expense_date)
        THEN Outcome(tbl, seq, "date missing", {})
        ELSE IF Blank(a.description)
        THEN Outcome(tbl, seq, "description missing", {})
        ELSE IF AmountInvalid(a.amount)
        THEN Outcome(tbl, seq, "amount invalid", {})
        ELSE IF IsError(date_obj)
        THEN Outcome(tbl, seq, "date format", {})
        ELSE IF a.amount = NaN
        THEN \* NOT NULL constraint failed: expenses.amount
             Outcome(tbl, seq, "error", {})
        ELSE Outcome(r.table, r.sequence, "added", {r.returned})

\* update_expense of src/main.py
main_update_expense(tbl, seq, a) ==
    LET date_obj       == parse_date(a.expense_date)
        category       == StrippedOrNone(a.category)
        final_category == IF category # NoneValue THEN category
                          ELSE a.classified_as
        final_merchant == StrippedOrNone(a.merchant)
        given == IF final_merchant = NoneValue THEN Columns \ {"merchant"}
                 ELSE Columns
        fields == [c \in given |->
                      IF c = "date" THEN date_obj.date
                      ELSE IF c = "category" THEN final_category
                      ELSE IF c = "description" THEN a.description
                      ELSE IF c = "amount"
                      THEN (IF a.amount = NaN THEN NaN ELSE a.amount.value)
                      ELSE final_merchant]
        r == update_expense(tbl, a.expense_id, fields)
    IN  IF a.expense_id <= 0
        THEN Outcome(tbl, seq, "id invalid", {})
        ELSE IF Falsy(a.expense_date)
        THEN Outcome(tbl, seq, "date missing", {})
        ELSE IF Blank(a.description)
        THEN Outcome(tbl, seq, "description missing", {})
        ELSE IF AmountInvalid(a.amount)
        THEN Outcome(tbl, seq, "amount invalid", {})
        ELSE IF IsError(date_obj)
        THEN Outcome(tbl, seq, "date format", {})
        ELSE IF a.amount = NaN /\ a.expense_id \in DOMAIN tbl
        THEN \* NOT NULL constraint failed: expenses.amount
             Outcome(tbl, seq, "error", {})
        ELSE IF r.returned
        THEN Outcome(r.table, seq, "updated", {a.expense_id})
        ELSE Outcome(tbl, seq, "not found", {})

\* the tool add_expense of the DBAgent (src/agents/db_agent.py)
agent_add_expense(tbl, seq, a) ==
    LET expense_date == DateFromIso(a.date_str.chars)
        category == IF Blank(a.category) THEN a.classified_as
                    ELSE a.category
        r == add_expense(tbl, seq,
                 [date        |-> expense_date.date,
                  category    |-> category,
                  description |-> a.description,
                  amount      |-> a.amount.value,
                  merchant    |-> a.merchant])
    IN  IF IsError(expense_date) THEN Outcome(tbl, seq, "error", {})
        ELSE IF a.amount = NaN THEN Outcome(tbl, seq, "error", {})
        ELSE Outcome(r.table, r.sequence, "added", {r.returned})

IntValue(n) == [type |-> "int", value |-> n]

\* int(v) of an ID cell: a number, or the digits of one
IntOf(v) == IF v.type = "int" THEN v.value ELSE Number(v.chars)

RECURSIVE Without(_, _)
\* s.replace(c, '') for each character c of the set
Without(s, removed) ==
    IF s = <<>> THEN <<>>
    ELSE (IF s[1] \in removed THEN <<>> ELSE <<s[1]>>)
         \o Without(Tail(s), removed)

\* the amount of a row of the edited table: text loses ',' and the
\* currency sign (written "W" here) before float()
TableAmount(amount_value) ==
    IF amount_value.type = "str"
    THEN FloatOf(StrValue(Strip(Without(amount_value.chars, {",", "W"}))))
    ELSE amount_value

\* str(v).strip() if pd.notna(v) else None
StripIfNotNa(v) == IF v = NaN THEN NoneValue ELSE StrValue(Strip(v.chars))

RECURSIVE DeleteIds(_)
\* delete_ids: the IDs of the rows whose delete box is checked, in the
\* order of the rows
DeleteIds(rows) ==
    IF rows = <<>> THEN <<>>
    ELSE (IF rows[1].delete THEN <<IntOf(rows[1].ID)>> ELSE <<>>)
         \o DeleteIds(Tail(rows))

\* the counters of save_table_changes before the first operation; log
\* lists the operations on the storage that changed it, in order
SaveStart(tbl) ==
    [table |-> tbl, success_count |-> 0, delete_count |-> 0,
     error_count |-> 0, error_messages |-> <<>>, log |-> <<>>]

\* error_count += 1; error_messages.append(...)
SaveError(st, idx, error) ==
    [st EXCEPT !.error_count = @ + 1,
               !.error_messages = Append(@, [row |-> idx, error |-> error])]

RECURSIVE RunDeletes(_, _)
\* for expense_id in delete_ids
RunDeletes(delete_ids, st) ==
    IF delete_ids = <<>> THEN st
    ELSE LET r == delete_expense(st.table, delete_ids[1])
         IN  RunDeletes(Tail(delete_ids),
                 IF r.returned
                 THEN [st EXCEPT !.table = r.table,
                                 !.delete_count = @ + 1,
                                 !.log = Append(@, [op |-> "delete",
                                                    id |-> delete_ids[1]])]
                 ELSE SaveError(st, 0, "delete failed"))

\* edited_table['ID'].isin(delete_ids) for one cell: a number is found
\* among numbers, text is not
IsIn(v, ids) == v.type = "int" /\ \E i \in 1..Len(ids) : ids[i] = v.value

\* the body of the update loop for the row idx
UpdateRow(row, idx, st, classified_as) ==
    LET expense_id   == IntOf(row.ID)
        expense_date == parse_date(StrValue(Strip(StrOf(row.date))))
        description  == Strip(StrOf(row.description))
        amount       == TableAmount(row.amount)
        category     == StripIfNotNa(row.category)
        merchant     == StripIfNotNa(row.merchant)
        given == IF Falsy(merchant) THEN Columns \ {"merchant"} ELSE Columns
        fields == [c \in given |->
                      IF c = "date" THEN expense_date.date
                      ELSE IF c = "category"
                      THEN (IF Falsy(category) THEN classified_as
                            ELSE category)
                      ELSE IF c = "description" THEN StrValue(description)
                      ELSE IF c = "amount"
                      THEN (IF amount = NaN THEN NaN ELSE amount.value)
                      ELSE merchant]
        r == update_expense(st.table, expense_id, fields)
    IN  IF IsError(expense_date) THEN SaveError(st, idx, "date")
        ELSE IF description = <<>> THEN SaveError(st, idx, "description")
        ELSE IF IsError(amount) THEN SaveError(st, idx, "exception")
        ELSE IF AmountRejected(amount) THEN SaveError(st, idx, "amount")
        ELSE IF amount = NaN /\ expense_id \in DOMAIN st.table
        THEN \* NOT NULL constraint failed: expenses.amount
             SaveError(st, idx, "exception")
        ELSE IF r.returned
        THEN [st EXCEPT !.table = r.table,
                        !.success_count = @ + 1,
                        !.log = Append(@, [op |-> "update",
                                           id |-> expense_id])]
        ELSE SaveError(st, idx, "not found")

RECURSIVE UpdateRows(_, _, _, _, _)
\* for idx, row in updated_table.iterrows(), from the row idx on;
\* updated_table is the edited table without the rows whose ID is in
\* delete_ids
UpdateRows(rows, idx, delete_ids, st, cls) ==
    IF idx > Len(rows) THEN st
    ELSE UpdateRows(rows, idx + 1, delete_ids,
             IF IsIn(rows[idx].ID, delete_ids) THEN st
             ELSE UpdateRow(rows[idx], idx, st, cls[idx]),
             cls)

\* faulty variant: the updates, then the deletions
save_table_changes_UpdatesFirst(tbl, edited_table, cls) ==
    IF edited_table = <<>> THEN SaveStart(tbl)
    ELSE LET delete_ids == DeleteIds(edited_table)
         IN  RunDeletes(delete_ids,
                        UpdateRows(edited_table, 1, delete_ids,
                                   SaveStart(tbl), cls))

\* save_table_changes: the deletions, then the updates
save_table_changes(tbl, edited_table, cls) ==
    IF edited_table = <<>> THEN SaveStart(tbl)
    ELSE LET delete_ids == DeleteIds(edited_table)
         IN  UpdateRows(edited_table, 1, delete_ids,
                        RunDeletes(delete_ids, SaveStart(tbl)), cls)

----------------------------------------------------------------------------
(* The state machine: one of the functions is applied to the input.        *)

\* no function has been called
InitCall ==
    /\ current_month = NoDate
    /\ target_month = NoDate
    /\ date_str = NoneValue
    /\ called = "none"
    /\ result = <<>>
    /\ args = <<>>

\* the functions of the analytics are applied without the storage
InitCommon ==
    /\ InitCall
    /\ table = <<>>
    /\ sequence = 0
    /\ issued = <<>>

InitStats ==
    /\ \E k \in 0..MaxStatsLen : \E f \in [1..k -> StatsKinds] :
          expenses = ListOf(f, k)
    /\ InitCommon

InitOutliers ==
    /\ \/ \E k \in 0..MaxOutlierLen : \E f \in [1..k -> OutlierKinds] :
             expenses = ListOf(f, k)
       \/ \E k \in 0..MaxRunLen : \E f \in [1..k -> RunKinds] :
             expenses = ListOf(f, k)
    /\ InitCommon

InitGrowth ==
    /\ \E k \in 0..MaxGrowthLen : \E f \in [1..k -> GrowthKinds] :
          expenses = ListOf(f, k)
    /\ InitCommon

InitBuckets ==
    /\ \E k \in 0..MaxBucketLen : \E f \in [1..k -> BucketKinds] :
          expenses = ListOf(f, k)
    /\ InitCommon

CalculateCategoryStats ==
    /\ called = "none"
    /\ called' = "calculate_category_stats"
    /\ result' = calculate_category_stats(expenses)
    /\ UNCHANGED <<expenses, current_month, target_month, date_str,
                 table, sequence, issued, args>>

DetectOutliers ==
    /\ called = "none"
    /\ called' = "detect_outliers"
    /\ result' = detect_outliers(expenses)
    /\ UNCHANGED <<expenses, current_month, target_month, date_str,
                 table, sequence, issued, args>>

CalculateMomGrowth ==
    /\ called = "none"
    /\ \E cm \in RefDates :
          /\ current_month' = cm
          /\ result' = calculate_mom_growth(expenses, cm)
    /\ called' = "calculate_mom_growth"
    /\ UNCHANGED <<expenses, target_month, date_str,
                 table, sequence, issued, args>>

InitForecast ==
    /\ \E k \in 0..MaxForecastLen :
          \E f \in [1..k -> ForecastKinds] : expenses = ListOf(f, k)
    /\ InitCommon

\* faulty variant: the records without a date are removed from the list itself
PredictMonthlyExpense_DropsUndated ==
    /\ called = "none"
    /\ \E tm \in TargetMonths :
          /\ target_month' = tm
          /\ result' = predict_monthly_expense(expenses, tm)
    /\ expenses' = SelectSeq(expenses, LAMBDA e : e.date # NoDate)
    /\ called' = "predict_monthly_expense"
    /\ UNCHANGED <<current_month, date_str,
                 table, sequence, issued, args>>

PredictMonthlyExpense ==
    /\ called = "none"
    /\ \E tm \in TargetMonths :
          /\ target_month' = tm
          /\ result' = predict_monthly_expense(expenses, tm)
    /\ called' = "predict_monthly_expense"
    /\ UNCHANGED <<expenses, current_month, date_str,
                 table, sequence, issued, args>>

\* a short list of any records, or the six records in any order
InitAll ==
    /\ \/ \E k \in 0..MaxAllLen : \E f \in [1..k -> AllKinds] :
             expenses = ListOf(f, k)
       \/ \E p \in Permutations(DOMAIN SixRecords) :
             expenses = Permute(SixRecords, p)
    /\ InitCommon

InitParse ==
    /\ expenses = <<>>
    /\ InitCommon

ParseDate ==
    /\ called = "none"
    /\ \E x \in ParseInputs :
          /\ date_str' = x
          /\ result' = parse_date(x)
    /\ called' = "parse_date"
    /\ UNCHANGED <<expenses, current_month, target_month,
                 table, sequence, issued, args>>

NextStats == CalculateCategoryStats

NextOutliers ==
    \/ CalculateCategoryStats
    \/ DetectOutliers

NextGrowth == CalculateMomGrowth

NextForecast == PredictMonthlyExpense
NextParse == ParseDate

NextAll ==
    \/ CalculateCategoryStats
    \/ DetectOutliers
    \/ CalculateMomGrowth
    \/ PredictMonthlyExpense

Next ==
    \/ CalculateCategoryStats
    \/ DetectOutliers
    \/ CalculateMomGrowth
    \/ PredictMonthlyExpense
    \/ ParseDate

\* the statistics on short lists with and without dates
SpecStats == InitStats /\ [][NextStats]_vars
\* the statistics and the outliers on lists long enough to have outliers
SpecOutliers == InitOutliers /\ [][NextOutliers]_vars
\* the growth on records of the reference month and the month before
SpecGrowth == InitGrowth /\ [][NextGrowth]_vars
\* the growth on records dated around the ends of the months
SpecBuckets == InitBuckets /\ [][NextGrowth]_vars
SpecForecast == InitForecast /\ [][NextForecast]_vars
SpecParse == InitParse /\ [][NextParse]_vars
SpecAll == InitAll /\ [][NextAll]_vars
\* parse_date and the four functions on the lists given to all of them
Spec == InitAll /\ [][Next]_vars

----------------------------------------------------------------------------
(* The storage as a state machine: the operations of DatabaseManager are   *)
(* called one after the other on a table that starts empty.                *)

\* the number of rows ever inserted is bounded
MaxDbIds == 2

\* the dates of the stored records and of the queries
DbDates == {<<2024, 1, 31>>, <<2024, 2, 1>>, <<2024, 10, 9>>}

\* the arguments of add_expense
AddArgs ==
    {[date |-> d, category |-> "food", description |-> "lunch",
      amount |-> 100, merchant |-> NoneStr] : d \in DbDates}
    \cup {[date |-> d, category |-> "transport", description |-> "bus",
           amount |-> 250, merchant |-> "shop"] : d \in DbDates}

\* the ids the operations are called with: stored, deleted or never given
DbIds == 1..(MaxDbIds + 1)

\* updates of the date alone
DateUpdates == {[date |-> d] : d \in DbDates}

\* the table is empty and nothing was called
InitDb ==
    /\ expenses = <<>>
    /\ InitCall
    /\ table = <<>>
    /\ sequence = 0
    /\ issued = <<>>

DbAddExpense ==
    /\ sequence < MaxDbIds
    /\ \E a \in AddArgs :
          LET r == add_expense(table, sequence, a)
          IN  /\ table' = r.table
              /\ sequence' = r.sequence
              /\ issued' = Append(issued, r.returned)
              /\ result' = r.returned
              /\ args' = a
    /\ called' = "add_expense"
    /\ UNCHANGED <<expenses, current_month, target_month, date_str>>

\* update_expense with arguments of the set A
UpdateExpenseWith(A) ==
    /\ \E id \in DbIds : \E a \in A :
          LET r == update_expense(table, id, a)
          IN  /\ table' = r.table
              /\ result' = r.returned
              /\ args' = [expense_id |-> id, fields |-> a]
    /\ called' = "update_expense"
    /\ UNCHANGED <<expenses, current_month, target_month, date_str,
                   sequence, issued>>

DbUpdateDate == UpdateExpenseWith(DateUpdates)

DbDeleteExpense ==
    /\ \E id \in DbIds :
          LET r == delete_expense(table, id)
          IN  /\ table' = r.table
              /\ result' = r.returned
              /\ args' = [expense_id |-> id]
    /\ called' = "delete_expense"
    /\ UNCHANGED <<expenses, current_month, target_month, date_str,
                   sequence, issued>>

DbGetExpenses ==
    /\ \E s \in DbDates \cup {NoDate} : \E e \in DbDates \cup {NoDate} :
          /\ args' = [start_date |-> s, end_date |-> e]
          /\ result' \in get_expenses(table, s, e)
    /\ called' = "get_expenses"
    /\ UNCHANGED <<expenses, current_month, target_month, date_str,
                   table, sequence, issued>>

DbGetExpenseById ==
    /\ \E id \in DbIds :
          /\ args' = [expense_id |-> id]
          /\ result' = get_expense_by_id(table, id)
    /\ called' = "get_expense_by_id"
    /\ UNCHANGED <<expenses, current_month, target_month, date_str,
                   table, sequence, issued>>

NextDb ==
    \/ DbAddExpense
    \/ DbUpdateDate
    \/ DbDeleteExpense
    \/ DbGetExpenses
    \/ DbGetExpenseById

\* sequences of calls on the storage
SpecDb == InitDb /\ [][NextDb]_vars

----------------------------------------------------------------------------
(* update_expense of DatabaseManager with every combination of arguments   *)
(* given and left out, on a table of up to two rows.                       *)

\* the values of the arguments that are given
NewValues ==
    [date |-> <<2024, 10, 9>>, category |-> "transport",
     description |-> "taxi", amount |-> 70, merchant |-> "mart"]

\* the arguments of update_expense: any of them given
UpdateArgs == {[c \in given |-> NewValues[c]] : given \in SUBSET Columns}

\* the rows of the tables
FirstRow == StoredRow(<<2024, 1, 31>>, "food", "lunch", 100, NoneStr)
SecondRow == StoredRow(<<2024, 2, 1>>, "transport", "bus", 250, "shop")

InitUpdate ==
    /\ expenses = <<>>
    /\ InitCall
    /\ issued = <<1, 2>>
    /\ sequence = 2
    /\ table \in {<<>>, [i \in {1} |-> FirstRow], [i \in {2} |-> SecondRow],
                  [i \in {1, 2} |-> IF i = 1 THEN FirstRow ELSE SecondRow]}

DbUpdateExpense ==
    /\ called = "none"
    /\ UpdateExpenseWith(UpdateArgs)

NextUpdate == DbUpdateExpense

\* one call of update_expense
SpecUpdate == InitUpdate /\ [][NextUpdate]_vars

----------------------------------------------------------------------------
(* upload_csv on small files.                                              *)

\* the number of data lines of a file
MaxCsvRows == 2

Tea == <<"t", "e", "a">>
Fun == <<"f", "u", "n">>
Shop == <<"s", "h", "o", "p">>

\* a line of a file, by the text of its cells
CsvLine(date, description, amount, category, merchant) ==
    [date |-> date, description |-> description, amount |-> amount,
     category |-> category, merchant |-> merchant]

\* the lines the files are made of: a complete line; lines with the
\* category cell empty or blank; a date that is no date; an empty and a
\* blank description; amounts of zero, below zero, missing and not a number
CsvLines ==
    LET day == DateIsoFormat(<<2024, 1, 17>>)
    IN  {CsvLine(day, Tea, <<"5", "0">>, Fun, Shop),
         CsvLine(day, Tea, <<"5", "0">>, <<>>, Shop),
         CsvLine(day, Tea, <<"7">>, <<" ", " ">>, <<>>),
         CsvLine(<<"2", "0", "2", "4", "-", "1", "3", "-", "0", "1">>,
                 Tea, <<"5", "0">>, Fun, Shop),
         CsvLine(day, <<>>, <<"5", "0">>, Fun, Shop),
         CsvLine(day, <<" ">>, <<"5", "0">>, Fun, Shop),
         CsvLine(day, Tea, <<"0">>, Fun, Shop),
         CsvLine(day, Tea, <<"-", "5">>, Fun, Shop),
         CsvLine(day, Tea, <<>>, Fun, Shop),
         CsvLine(day, Tea, <<"a", "b", "c">>, Fun, Shop)}

\* the headers: all columns, the required columns only, and a header
\* without the amount
CsvHeaders ==
    {{"date", "description", "amount", "category", "merchant"},
     {"date", "description", "amount"},
     {"date", "description", "category"}}

\* an expense stored earlier
EarlierRow ==
    StoredRow(<<2023, 12, 25>>, StrValue(Fun), StrValue(Tea), 30, NoneValue)

\* the table is empty, or holds one expense left of two
InitCsv ==
    /\ expenses = <<>>
    /\ InitCall
    /\ issued = <<>>
    /\ \/ table = <<>> /\ sequence = 0
       \/ table = [i \in {2} |-> EarlierRow] /\ sequence = 2

UploadCsv ==
    /\ called = "none"
    /\ \E k \in 0..MaxCsvRows : \E lines \in [1..k -> CsvLines] :
       \E columns \in CsvHeaders : \E cls \in [1..k -> DefaultCategories] :
       \E file \in {[columns |-> columns, rows |-> lines]} :
       \E st \in {upload_csv(table, sequence, file, cls)} :
          /\ args' = file
          /\ table' = st.table
          /\ sequence' = st.sequence
          /\ issued' = issued \o [i \in 1..Len(st.stored) |->
                                     st.stored[i].id]
          /\ result' = [c \in DOMAIN st \ {"table", "sequence"} |-> st[c]]
    /\ called' = "upload_csv"
    /\ UNCHANGED <<expenses, current_month, target_month, date_str>>

NextCsv == UploadCsv

\* one upload
SpecCsv == InitCsv /\ [][NextCsv]_vars

----------------------------------------------------------------------------
(* The handlers that write, each called once on a table of expenses with   *)
(* positive amounts.                                                       *)

\* the number of rows of an edited table
MaxTableRows == 2

Day == DateIsoFormat(<<2024, 1, 17>>)
NoDay == <<"2", "0", "2", "4", "-", "1", "3", "-", "0", "1">>

\* the arguments of add_expense of src/main.py, with what classify
\* returns if it is called
MainAddArgs ==
    [expense_date : {StrValue(Day), StrValue(NoDay), StrValue(<<>>)},
     description : {StrValue(Tea), StrValue(<<" ">>)},
     amount : {FloatValue(50), FloatValue(0), FloatValue(0 - 5), NoneValue,
               NaN},
     category : {StrValue(Fun), StrValue(<<>>)},
     merchant : {StrValue(Shop), StrValue(<<>>)},
     classified_as : DefaultCategories]

\* the arguments of update_expense of src/main.py
MainUpdateArgs ==
    [expense_id : 0..3,
     expense_date : {StrValue(Day), StrValue(NoDay)},
     description : {StrValue(Tea), StrValue(<<" ">>)},
     amount : {FloatValue(50), FloatValue(0), FloatValue(0 - 5), NoneValue,
               NaN},
     category : {StrValue(Fun), StrValue(<<>>)},
     merchant : {StrValue(Shop), StrValue(<<>>)},
     classified_as : DefaultCategories]

\* the arguments of the tool add_expense of the DBAgent
AgentAddArgs ==
    [date_str : {StrValue(Day), StrValue(NoDay)},
     description : {StrValue(Tea)},
     amount : {FloatValue(50), FloatValue(0), FloatValue(0 - 5), NaN},
     category : {StrValue(Fun), NoneValue},
     merchant : {StrValue(Shop), NoneValue},
     classified_as : DefaultCategories]

\* a row of the edited table: the columns ID, date, category,
\* description, amount, merchant and the delete box
TableRow(id, date, category, description, amount, merchant, delete) ==
    [ID |-> id, date |-> StrValue(date), category |-> category,
     description |-> StrValue(description), amount |-> amount,
     merchant |-> merchant, delete |-> delete]

\* the rows of the edited tables: an edited row, a row to delete, rows
\* with an amount of zero, a date that is no date and no description, and
\* a row without category and merchant whose amount is text; the ID is a
\* number, or the digits of one
TableRows ==
    UNION {
      {TableRow(id, Day, StrValue(Fun), Tea, FloatValue(70), StrValue(Shop),
                FALSE),
       TableRow(id, Day, StrValue(Fun), Tea, FloatValue(70), StrValue(Shop),
                TRUE),
       TableRow(id, Day, StrValue(Fun), Tea, FloatValue(0), StrValue(Shop),
                FALSE),
       TableRow(id, NoDay, StrValue(Fun), Tea, FloatValue(70),
                StrValue(Shop), FALSE),
       TableRow(id, Day, StrValue(Fun), <<>>, FloatValue(70), StrValue(Shop),
                FALSE),
       TableRow(id, Day, NaN, Tea, StrValue(<<"1", ",", "2", "0", "W">>),
                NaN, FALSE)} :
      id \in {IntValue(1), IntValue(2), StrValue(<<"2">>)}}

\* expenses stored earlier, with positive amounts
EarlierTables ==
    {<<>>,
     [i \in {2} |-> EarlierRow],
     [i \in {1, 2} |-> IF i = 2 THEN EarlierRow
                       ELSE StoredRow(<<2024, 1, 5>>, StrValue(Fun),
                                      StrValue(Tea), 20, StrValue(Shop))]}

InitWrites ==
    /\ expenses = <<>>
    /\ InitCall
    /\ issued = <<>>
    /\ table \in EarlierTables
    /\ sequence = 2

\* the handler has returned out: the table, the sequence and the result
Returned(out, name) ==
    /\ table' = out.table
    /\ sequence' = out.sequence
    /\ issued' = IF out.sequence > sequence THEN <<out.sequence>> ELSE <<>>
    /\ result' = [message |-> out.message, written |-> out.written]
    /\ called' = name
    /\ UNCHANGED <<expenses, current_month, target_month, date_str>>

MainAddExpense ==
    /\ called = "none"
    /\ \E a \in MainAddArgs :
       \E out \in {main_add_expense(table, sequence, a)} :
          /\ args' = a
          /\ Returned(out, "main.add_expense")

MainUpdateExpense ==
    /\ called = "none"
    /\ \E a \in MainUpdateArgs :
       \E out \in {main_update_expense(table, sequence, a)} :
          /\ args' = a
          /\ Returned(out, "main.update_expense")

AgentAddExpense ==
    /\ called = "none"
    /\ \E a \in AgentAddArgs :
       \E out \in {agent_add_expense(table, sequence, a)} :
          /\ args' = a
          /\ Returned(out, "agent.add_expense")

SaveTableChanges ==
    /\ called = "none"
    /\ \E k \in 0..MaxTableRows : \E edited_table \in [1..k -> TableRows] :
       \E cls \in [1..k -> DefaultCategories] :
       \E st \in {save_table_changes(table, edited_table, cls)} :
          /\ args' = edited_table
          /\ table' = st.table
          /\ result' = [c \in DOMAIN st \ {"table"} |-> st[c]]
    /\ called' = "save_table_changes"
    /\ UNCHANGED <<expenses, current_month, target_month, date_str,
                   sequence, issued>>

NextTable == SaveTableChanges

\* one call of save_table_changes
SpecTable == InitWrites /\ [][NextTable]_vars

NextWrites ==
    \/ MainAddExpense
    \/ UploadCsv
    \/ MainUpdateExpense
    \/ SaveTableChanges
    \/ AgentAddExpense

\* one call of one of the handlers that write
SpecWrites == InitWrites /\ [][NextWrites]_vars

----------------------------------------------------------------------------
(* What the claims are stated with: sums over the input taken directly     *)
(* from the records, by index set.                                         *)

\* the positions of the records of a category
IndicesOf(exps, c) == {i \in 1..Len(exps) : exps[i].category = c}

RECURSIVE AmountSum(_, _)
\* the sum of the amounts of the records at the positions I
AmountSum(exps, I) ==
    IF I = {} THEN 0
    ELSE LET i == CHOOSE j \in I : TRUE
         IN  exps[i].amount + AmountSum(exps, I \ {i})

RECURSIVE AmountSqSum(_, _)
\* the sum of the squares of the amounts of the records at the positions I
AmountSqSum(exps, I) ==
    IF I = {} THEN 0
    ELSE LET i == CHOOSE j \in I : TRUE
         IN  exps[i].amount * exps[i].amount + AmountSqSum(exps, I \ {i})

RECURSIVE TotalSum(_, _)
\* the sum of the 'total' entries of a statistics mapping over the keys C
TotalSum(stats, C) ==
    IF C = {} THEN 0
    ELSE LET c == CHOOSE k \in C : TRUE
         IN  stats[c].total + TotalSum(stats, C \ {c})

\* the number of records of category c with amount a
CountOf(exps, c, a) ==
    Cardinality({i \in IndicesOf(exps, c) : exps[i].amount = a})

\* the records of category c are four of amount 100 and one of amount b
FourHundredsAnd(exps, c, b) ==
    /\ Cardinality(IndicesOf(exps, c)) = 5
    /\ CountOf(exps, c, 100) = 4
    /\ CountOf(exps, c, b) = 1

\* the record at position i appears in the outlier list
Reported(i) == \E j \in 1..Len(result) : result[j].id = expenses[i].id

\* amount > mean + 2 * population std over the records of the same
\* category, in integers: with n records of sum S and sum of squares Q,
\* n * amount - S > 0 and (n * amount - S)^2 > 4 * (n * Q - S^2)
AboveTwoSigma(exps, i) ==
    LET I == IndicesOf(exps, exps[i].category)
        n == Cardinality(I)
        S == AmountSum(exps, I)
        Q == AmountSqSum(exps, I)
        t == n * exps[i].amount - S
    IN  t > 0 /\ t * t > 4 * (n * Q - S * S)

StatsCalled == called = "calculate_category_stats"
OutliersCalled == called = "detect_outliers"
GrowthCalled == called = "calculate_mom_growth"

----------------------------------------------------------------------------
(* Claims about calculate_category_stats.                                  *)

\* C1: for a non-empty input the 'total' entries of all categories add up
\* to the sum of the amounts of all input records.
C1_TotalsAddUp ==
    (StatsCalled /\ expenses # <<>>) =>
        TotalSum(result, DOMAIN result)
            = AmountSum(expenses, 1..Len(expenses))

\* C1 witness: statistics of at least three records in two categories.
C1_Witness ==
    /\ StatsCalled
    /\ Len(expenses) >= 3
    /\ Cardinality(DOMAIN result) = 2
    /\ \E c \in DOMAIN result : result[c].count >= 2

\* C2: a category with exactly one record has std 0 exactly and mean,
\* median, min and max all equal to the amount of that record.
C2_SingleRecordCategory ==
    StatsCalled =>
        \A c \in Categories :
            \A i \in 1..Len(expenses) :
                IndicesOf(expenses, c) = {i} =>
                    /\ c \in DOMAIN result
                    /\ result[c].std_sq = <<0, 1>>
                    /\ result[c].mean = <<expenses[i].amount, 1>>
                    /\ result[c].median = <<expenses[i].amount, 1>>
                    /\ result[c].min = expenses[i].amount
                    /\ result[c].max = expenses[i].amount

\* C2 witness: one category with a single record next to a category with
\* several records of different amounts.
C2_Witness ==
    /\ StatsCalled
    /\ \E c \in DOMAIN result : result[c].count = 1
    /\ \E c \in DOMAIN result :
          result[c].count > 1 /\ result[c].std_sq # <<0, 1>>

\* C3: the keys are exactly the categories that occur in the input, each
\* count is the number of input records of the category, dated or not, and
\* the empty input gives the empty mapping.
C3_KeysAndCounts ==
    StatsCalled =>
        /\ \A c \in Categories :
              c \in DOMAIN result <=> IndicesOf(expenses, c) # {}
        /\ DOMAIN result \subseteq Categories
        /\ \A c \in DOMAIN result :
              result[c].count = Cardinality(IndicesOf(expenses, c))
        /\ (expenses = <<>> => result = <<>>)

\* C3 witness: a category absent from the input, and a category counted
\* with a record that has no date.
C3_Witness ==
    /\ StatsCalled
    /\ \E c \in Categories : c \notin DOMAIN result
    /\ \E c \in DOMAIN result :
          /\ result[c].count >= 2
          /\ \E i \in IndicesOf(expenses, c) : expenses[i].date = NoDate

\* C3, the empty input: statistics of no records.
C3_WitnessEmpty == StatsCalled /\ expenses = <<>>

----------------------------------------------------------------------------
(* Claims about detect_outliers.                                           *)

C4_WitnessReported ==
    /\ OutliersCalled
    /\ Len(result) >= 1
    /\ Len(result) < Len(expenses)

C6_SubsequenceHighOnly ==
    OutliersCalled =>
        /\ \A j \in 1..Len(result) :
              \E i \in 1..Len(expenses) :
                  /\ result[j].id = expenses[i].id
                  /\ result[j].category = expenses[i].category
                  /\ result[j].amount = expenses[i].amount
                  /\ result[j].description = expenses[i].description
                  /\ Cardinality(IndicesOf(expenses, expenses[i].category))
                        * expenses[i].amount
                     > AmountSum(expenses,
                                 IndicesOf(expenses, expenses[i].category))
        /\ \A j, k \in 1..Len(result) :
              j < k => result[j].id < result[k].id

\* C6 witness: two records reported, with an unreported record between
\* them in the input.
C6_Witness ==
    /\ OutliersCalled
    /\ Len(result) >= 2
    /\ \E i \in 1..Len(expenses) :
          /\ ~Reported(i)
          /\ result[1].id < expenses[i].id
          /\ expenses[i].id < result[2].id

----------------------------------------------------------------------------
(* Claims about calculate_mom_growth.  The months are taken from the       *)
(* calendar: a record belongs to a month when its date has that year and   *)
(* that month number.                                                      *)

\* the reference date the call used
RefDate == IF current_month = NoDate THEN Today ELSE current_month

\* <<year, month>> of the reference date
RefMonth == <<RefDate[1], RefDate[2]>>

\* <<year, month>> of the calendar month before the reference month
MonthBefore ==
    IF RefMonth[2] = 1 THEN <<RefMonth[1] - 1, 12>>
    ELSE <<RefMonth[1], RefMonth[2] - 1>>

\* the positions of the records of category c dated in the month ym
InMonth(c, ym) ==
    {i \in IndicesOf(expenses, c) :
        /\ expenses[i].date # NoDate
        /\ expenses[i].date[1] = ym[1]
        /\ expenses[i].date[2] = ym[2]}

CurrentTotal(c) == AmountSum(expenses, InMonth(c, RefMonth))
PreviousTotal(c) == AmountSum(expenses, InMonth(c, MonthBefore))

\* v is the finite number num / den
IsNumber(v, num, den) ==
    /\ ~v.inf
    /\ v.value[2] > 0
    /\ v.value[1] * den = num * v.value[2]

\* C7: a category with previous-month total zero and current-month total
\* positive gets positive infinity, not a finite number; a category of the
\* result with both totals zero gets 0.0.
C7_NewCategoryInfinite ==
    GrowthCalled =>
        \A c \in Categories :
            /\ (PreviousTotal(c) = 0 /\ CurrentTotal(c) > 0) =>
                  (c \in DOMAIN result /\ result[c].inf)
            /\ (c \in DOMAIN result /\ PreviousTotal(c) = 0
                    /\ CurrentTotal(c) = 0) =>
                  (~result[c].inf /\ result[c].value = <<0, 1>>)

\* C7 witness: food has no amount in the previous month and 100 in the
\* reference month.
C7_Witness ==
    /\ GrowthCalled
    /\ PreviousTotal("food") = 0
    /\ CurrentTotal("food") = 100
    /\ InMonth("transport", MonthBefore) # {}

\* C7, both totals zero: a category whose records of the two months all
\* have amount 0.
C7_WitnessZero ==
    /\ GrowthCalled
    /\ \E c \in DOMAIN result :
          /\ PreviousTotal(c) = 0
          /\ CurrentTotal(c) = 0
          /\ InMonth(c, MonthBefore) # {}
          /\ InMonth(c, RefMonth) # {}

\* C8: a category with a non-zero previous-month total gets
\* (current - previous) / previous x 100, current being 0 (result -100)
\* when it has no record in the reference month; previous 200 and current
\* 150 give -25.
C8_PercentChange ==
    GrowthCalled =>
        \A c \in Categories :
            PreviousTotal(c) # 0 =>
                /\ c \in DOMAIN result
                /\ IsNumber(result[c],
                            (CurrentTotal(c) - PreviousTotal(c)) * 100,
                            PreviousTotal(c))
                /\ InMonth(c, RefMonth) = {} =>
                      result[c].value = <<-100, 1>>
                /\ (PreviousTotal(c) = 200 /\ CurrentTotal(c) = 150) =>
                      result[c].value = <<-25, 1>>

\* C8 witness: previous 200 and current 150 in one category, and another
\* category with records in the previous month only.
C8_Witness ==
    /\ GrowthCalled
    /\ \E c \in Categories :
          PreviousTotal(c) = 200 /\ CurrentTotal(c) = 150
    /\ \E c \in Categories :
          PreviousTotal(c) # 0 /\ InMonth(c, RefMonth) = {}

\* C9: the result of every category is the growth between the total of
\* its records dated in the calendar month before the reference month
\* (December of the year before for January) and the total of its records
\* dated in the reference month, first and last days included; records of
\* other months and records without a date change nothing.  Records
\* (2024-01-10, 50), (2024-01-15, 60), (2024-02-10, 40) of food with the
\* reference month 2024-02 give (40 - 110) / 110 x 100 = -700/11.
C9_CalendarMonthBuckets ==
    GrowthCalled =>
        \A c \in DOMAIN result :
            /\ IF PreviousTotal(c) = 0
               THEN IF CurrentTotal(c) > 0 THEN result[c].inf
                    ELSE IsNumber(result[c], 0, 1)
               ELSE IsNumber(result[c],
                             (CurrentTotal(c) - PreviousTotal(c)) * 100,
                             PreviousTotal(c))
            /\ (RefMonth = <<2024, 2>> /\ PreviousTotal(c) = 110
                    /\ CurrentTotal(c) = 40) =>
                  result[c].value = <<-700, 11>>

\* C9 witness: the three records of the example, reference month 2024-02.
C9_Witness ==
    /\ GrowthCalled
    /\ current_month = <<2024, 2, 15>>
    /\ Len(expenses) = 3
    /\ \E i, j, k \in 1..3 :
          /\ expenses[i].date = <<2024, 1, 10>> /\ expenses[i].amount = 50
          /\ expenses[j].date = <<2024, 1, 15>> /\ expenses[j].amount = 60
          /\ expenses[k].date = <<2024, 2, 10>> /\ expenses[k].amount = 40
    /\ result["food"].value = <<-700, 11>>

\* C9, the ends of the months and the year rollover: reference month
\* January 2024, with records on the last day of December 2023, on the
\* last day of January 2024 and on the first day of February 2024.
C9_WitnessRollover ==
    /\ GrowthCalled
    /\ RefMonth = <<2024, 1>>
    /\ \E i, j, k \in 1..Len(expenses) :
          /\ expenses[i].date = <<2023, 12, 31>>
          /\ expenses[j].date = <<2024, 1, 31>>
          /\ expenses[k].date = <<2024, 2, 1>>
          /\ expenses[i].category = expenses[j].category
          /\ expenses[j].category = expenses[k].category

\* C10: the keys are exactly the categories with at least one dated
\* record in the reference month or in the month before; the result is
\* empty for the empty input and when no record falls in either month.
C10_GrowthKeys ==
    GrowthCalled =>
        /\ \A c \in Categories :
              c \in DOMAIN result <=>
                  (InMonth(c, RefMonth) \cup InMonth(c, MonthBefore)) # {}
        /\ DOMAIN result \subseteq Categories
        /\ (expenses = <<>> => result = <<>>)
        /\ (\A c \in Categories :
                (InMonth(c, RefMonth) \cup InMonth(c, MonthBefore)) = {})
              => result = <<>>

\* C10 witness: one category with a record in one of the two months, the
\* other category with records outside both months only.
C10_Witness ==
    /\ GrowthCalled
    /\ Cardinality(DOMAIN result) = 1
    /\ \E c \in Categories :
          c \notin DOMAIN result /\ IndicesOf(expenses, c) # {}

\* C10, no qualifying record: a non-empty input and an empty result.
C10_WitnessNoneQualifies ==
    /\ GrowthCalled
    /\ expenses # <<>>
    /\ result = <<>>

----------------------------------------------------------------------------
(* Claims about predict_monthly_expense.                                   *)

ForecastCalled == called = "predict_monthly_expense"

\* the month the forecast is made for
TargetDate == IF target_month = NoDate THEN Today ELSE target_month

\* the months of the calendar, numbered in a row across the years
MonthNumber(d) == d[1] * 12 + d[2]

\* the positions of the records with a date
Dated == {i \in 1..Len(expenses) : expenses[i].date # NoDate}

\* the number of the earliest month of the whole input
FirstMonth ==
    CHOOSE n \in {MonthNumber(expenses[i].date) : i \in Dated} :
        \A i \in Dated : n <= MonthNumber(expenses[i].date)

\* the months in which category c has a record
MonthsOf(c) ==
    {MonthNumber(expenses[i].date) :
        i \in {j \in Dated : expenses[j].category = c}}

\* the total of category c in month n
TotalIn(c, n) ==
    AmountSum(expenses, {i \in Dated : /\ expenses[i].category = c
                                       /\ MonthNumber(expenses[i].date) = n})

RECURSIVE SumFn(_, _)
\* the sum of f over S
SumFn(f, S) ==
    IF S = {} THEN 0
    ELSE LET x == CHOOSE y \in S : TRUE IN f[x] + SumFn(f, S \ {x})

\* The value at the target month of the least-squares line of category c,
\* as the pair <<numerator, denominator>>, denominator > 0.  The line goes
\* through the centre (mean x, mean y) with slope Cxy / Cxx, where Cxy and
\* Cxx are the sums of (x - mean x)(y - mean y) and (x - mean x)^2; here
\* all of them are scaled by the number of points N to stay in the integers.
LineAtTarget(c) ==
    LET M   == MonthsOf(c)
        N   == Cardinality(M)
        t   == MonthNumber(TargetDate) - FirstMonth
        Sx  == SumFn([n \in M |-> n - FirstMonth], M)
        Sy  == SumFn([n \in M |-> TotalIn(c, n)], M)
        Cxy == SumFn([n \in M |-> (N * (n - FirstMonth) - Sx)
                                  * (N * TotalIn(c, n) - Sy)], M)
        Cxx == SumFn([n \in M |-> (N * (n - FirstMonth) - Sx)
                                  * (N * (n - FirstMonth) - Sx)], M)
    IN  <<Sy * Cxx + Cxy * (N * t - Sx), N * Cxx>>

\* the totals of category c are 100, 200, 300 in the months 0, 1, 2 and the
\* target is month 3
OneTwoThreeHundred(c) ==
    /\ Dated # {}
    /\ MonthsOf(c) = {FirstMonth, FirstMonth + 1, FirstMonth + 2}
    /\ TotalIn(c, FirstMonth) = 100
    /\ TotalIn(c, FirstMonth + 1) = 200
    /\ TotalIn(c, FirstMonth + 2) = 300
    /\ MonthNumber(TargetDate) = FirstMonth + 3

\* C11 as stated: a category with totals in two or more months is predicted
\* as the value of its least-squares line at the target month.
C11_Original ==
    ForecastCalled =>
        \A c \in Categories :
            Cardinality(MonthsOf(c)) >= 2 =>
                /\ c \in DOMAIN result
                /\ result[c] = Frac(LineAtTarget(c)[1], LineAtTarget(c)[2])

\* C11: a category with totals in two or more months is predicted as the
\* value at the target month of the least-squares line fitted to (months
\* since the earliest month of the whole input, total of the month), and as
\* 0 when that value is negative; months are counted across years and
\* across months without data; totals 100, 200, 300 in months 0, 1, 2 give
\* 400 for month 3.
C11_Amended ==
    ForecastCalled =>
        \A c \in Categories :
            Cardinality(MonthsOf(c)) >= 2 =>
                /\ c \in DOMAIN result
                /\ result[c] = IF LineAtTarget(c)[1] < 0 THEN <<0, 1>>
                               ELSE Frac(LineAtTarget(c)[1],
                                         LineAtTarget(c)[2])
                /\ OneTwoThreeHundred(c) => result[c] = <<400, 1>>

\* a category with months in two years and a month without data between
\* them, predicted above 0
C11_Witness ==
    /\ ForecastCalled
    /\ \E c \in Categories :
          /\ {2023 * 12 + 11, 2024 * 12 + 1} \subseteq MonthsOf(c)
          /\ 2023 * 12 + 12 \notin MonthsOf(c)
          /\ c \in DOMAIN result
          /\ result[c][1] > 0

\* the example: 100, 200, 300 and then 400
C11_WitnessExample ==
    /\ ForecastCalled
    /\ \E c \in Categories : OneTwoThreeHundred(c) /\ c \in DOMAIN result

\* C12: a category whose dated records all fall in one calendar month is
\* predicted as the total of that month, whatever the target month and the
\* other categories.
C12_SingleMonthTotal ==
    ForecastCalled =>
        \A c \in Categories :
            Cardinality(MonthsOf(c)) = 1 =>
                /\ c \in DOMAIN result
                /\ \A n \in MonthsOf(c) : result[c] = <<TotalIn(c, n), 1>>

\* food has two records in its only month, another category is present in
\* another month and a target month is given
C12_Witness ==
    /\ ForecastCalled
    /\ target_month # NoDate
    /\ Cardinality(MonthsOf("food")) = 1
    /\ Cardinality({i \in Dated : expenses[i].category = "food"}) = 2
    /\ MonthsOf("transport") # {}
    /\ MonthsOf("transport") # MonthsOf("food")
    /\ result["food"][1] > 0

\* C13: with amounts that are not negative every predicted value is at
\* least 0, for every target month, also one before the earliest month of
\* the data: a negative value of the line is replaced by 0.
C13_NeverNegative ==
    (/\ ForecastCalled
     /\ \A i \in 1..Len(expenses) : expenses[i].amount >= 0) =>
        \A c \in DOMAIN result :
            /\ result[c][2] > 0
            /\ result[c][1] >= 0
            /\ (/\ Cardinality(MonthsOf(c)) >= 2
                /\ LineAtTarget(c)[1] < 0) => result[c] = <<0, 1>>

\* the target month is before the earliest month of the data and the line
\* of a category is below 0 there
C13_Witness ==
    /\ ForecastCalled
    /\ Dated # {}
    /\ MonthNumber(TargetDate) < FirstMonth
    /\ \E c \in DOMAIN result :
          /\ Cardinality(MonthsOf(c)) >= 2
          /\ LineAtTarget(c)[1] < 0
          /\ result[c] = <<0, 1>>

\* the target month is after the data and the line of a category has
\* fallen below 0
C13_WitnessAfter ==
    /\ ForecastCalled
    /\ Dated # {}
    /\ MonthNumber(TargetDate) > FirstMonth
    /\ \E c \in DOMAIN result :
          /\ Cardinality(MonthsOf(c)) >= 2
          /\ LineAtTarget(c)[1] < 0

----------------------------------------------------------------------------
(* Claims about parse_date.                                                *)

ParseCalled == called = "parse_date"

\* the time of day 00:00:00
Midnight == <<"0", "0", ":", "0", "0", ":", "0", "0">>

\* the valid dates among the date parts of the inputs
ValidDates == {<<2024, 3, 5>>, <<2024, 2, 29>>}

\* C14: "2024-03-05", "2024-03-05T00:00:00" and "2024-03-05 00:00:00" all
\* parse to the date 2024-03-05, and every string made of a valid
\* YYYY-MM-DD date, a 'T' or a space and a time of day parses to the date
\* it begins with.
C14_DateTimeForms ==
    ParseCalled =>
        /\ date_str \in
               {StrValue(DateIsoFormat(<<2024, 3, 5>>)),
                StrValue(DateIsoFormat(<<2024, 3, 5>>) \o <<"T">> \o Midnight),
                StrValue(DateIsoFormat(<<2024, 3, 5>>) \o <<" ">> \o Midnight)}
             => result = DateValue(<<2024, 3, 5>>)
        /\ \A d \in ValidDates :
               (/\ date_str.type = "str"
                /\ Len(date_str.chars) > 11
                /\ SubSeq(date_str.chars, 1, 10) = DateIsoFormat(d)
                /\ date_str.chars[11] \in {"T", " "}) => result = DateValue(d)

\* "2024-03-05T00:00:00" has been parsed
C14_Witness ==
    /\ ParseCalled
    /\ date_str = StrValue(DateIsoFormat(<<2024, 3, 5>>) \o <<"T">> \o Midnight)
    /\ result = DateValue(<<2024, 3, 5>>)

\* "2024-02-29 10:30:00Z" has been parsed
C14_WitnessSpace ==
    /\ ParseCalled
    /\ date_str = StrValue(DateIsoFormat(<<2024, 2, 29>>)
                           \o <<" ", "1", "0", ":", "3", "0", ":", "0", "0", "Z">>)
    /\ result = DateValue(<<2024, 2, 29>>)

\* C15: parse_date is idempotent: for every accepted input, parsing the
\* returned value again returns it, and parsing the ISO string of the
\* returned value returns it too.
C15_Idempotent ==
    (ParseCalled /\ ~IsError(result)) =>
        /\ parse_date(result) = result
        /\ parse_date(StrValue(IsoFormatOf(result))) = result

\* C16: for every accepted input, also one that is a date or a date-time
\* value already, the returned value is a calendar date without a time of
\* day.
C16_CalendarDate ==
    (ParseCalled /\ ~IsError(result)) => result.type = "date"

\* C17: when every attempt to parse a string fails, on the 'T' branch, the
\* space branch and the plain branch, the error raised quotes the input
\* string (as given or stripped) and ends with the message of the error
\* that caused it.
C17_ErrorCarriesInput ==
    (/\ ParseCalled
     /\ date_str.type = "str"
     /\ Strip(date_str.chars) # <<>>
     /\ IsError(result)) =>
        /\ result.quotes \in {<<date_str.chars>>, <<Strip(date_str.chars)>>}
        /\ result.detail # ""

----------------------------------------------------------------------------
(* Claims about all four analytics functions.                              *)

AnyCalled == called # "none"

C18_WitnessOutliers ==
    /\ called = "detect_outliers"
    /\ result # <<>>
    /\ Len(expenses) = Len(SixRecords)

\* the records of a list, whatever their order
SetOf(s) == {s[i] : i \in 1..Len(s)}

\* the list exps in the order of the ids 1, 2, ...
ById(exps) ==
    [i \in 1..Len(exps) |->
        exps[CHOOSE j \in 1..Len(exps) : exps[j].id = i]]

\* the function that has been called returns for exps what it returned
\* for the input: the same mapping, or for detect_outliers the same set
\* of records
SameResult(exps) ==
    CASE called = "calculate_category_stats" ->
             calculate_category_stats(exps) = result
      [] called = "calculate_mom_growth" ->
             calculate_mom_growth(exps, current_month) = result
      [] called = "predict_monthly_expense" ->
             predict_monthly_expense(exps, target_month) = result
      [] called = "detect_outliers" ->
             SetOf(detect_outliers(exps)) = SetOf(result)

C19_WitnessOutlier ==
    /\ called = "detect_outliers"
    /\ Len(expenses) = Len(SixRecords)
    /\ expenses[1].amount = 500
    /\ Len(result) = 1
    /\ result[1].id = expenses[1].id

\* a number that is defined: a quotient with a positive denominator
Defined(q) == q[2] > 0

\* C20: for well-formed records each of the four functions returns a
\* defined result, also for an empty input, a single record, a category
\* present in one month only and amounts that are all equal: the empty
\* result for the empty input, and otherwise numbers that are defined
\* (positive infinity for the growth of a new category).
C20_DegenerateDefined ==
    /\ (AnyCalled /\ expenses = <<>>) => result = <<>>
    /\ called = "calculate_category_stats" =>
           \A c \in DOMAIN result :
               /\ result[c].count >= 1
               /\ Defined(result[c].mean)
               /\ Defined(result[c].median)
               /\ Defined(result[c].std_sq)
               /\ result[c].min = result[c].max =>
                      result[c].std_sq = <<0, 1>>
    /\ called = "calculate_mom_growth" =>
           \A c \in DOMAIN result :
               result[c].inf \/ Defined(result[c].value)
    /\ called = "detect_outliers" =>
           \A i \in 1..Len(result) :
               Defined(result[i].mean) /\ Defined(result[i].std_sq)
    /\ called = "predict_monthly_expense" =>
           \A c \in DOMAIN result : Defined(result[c])

\* the growth for a single record, of a category that has no record in the
\* previous month
C20_Witness ==
    /\ called = "calculate_mom_growth"
    /\ Len(expenses) = 1
    /\ \E c \in DOMAIN result : result[c].inf

\* the statistics of a category whose three amounts are equal
C20_WitnessEqualAmounts ==
    /\ called = "calculate_category_stats"
    /\ Len(expenses) = 3
    /\ \A i \in 1..3 : /\ expenses[i].category = "food"
                       /\ expenses[i].amount = 100
    /\ result["food"].std_sq = <<0, 1>>

\* the forecast of a single record
C20_WitnessSingleRecord ==
    /\ called = "predict_monthly_expense"
    /\ Len(expenses) = 1
    /\ result # <<>>

\* the outliers of an empty input
C20_WitnessEmpty ==
    /\ called = "detect_outliers"
    /\ expenses = <<>>
    /\ result = <<>>

----------------------------------------------------------------------------
(* The storage.                                                            *)

\* the date a stored row was written with: the date whose ISO form is the
\* text of its date column
StoredDate(id) ==
    CHOOSE d \in DbDates : DateIsoFormat(d) = table[id].date

\* the stored expense of an id, as the fields it was written with
StoredExpense(id) ==
    Expense(id, StoredDate(id), table[id].category, table[id].description,
            table[id].amount, table[id].merchant)

\* the ids of the stored expenses dated within the bounds that are given
IdsWithin(start_date, end_date) ==
    {id \in DOMAIN table :
        /\ start_date # NoDate => DateLE(start_date, StoredDate(id))
        /\ end_date # NoDate => DateLE(StoredDate(id), end_date)}

\* C21: after any sequence of add_expense, update_expense and
\* delete_expense calls, get_expenses(start_date, end_date) returns exactly
\* the stored expenses whose date d satisfies start_date <= d <= end_date,
\* each bound applied only when given and both inclusive, each expense
\* once, ordered by date descending.
C21_RangeDescending ==
    called = "get_expenses" =>
        /\ {result[i] : i \in 1..Len(result)}
             = {StoredExpense(id) :
                   id \in IdsWithin(args.start_date, args.end_date)}
        /\ Len(result)
             = Cardinality(IdsWithin(args.start_date, args.end_date))
        /\ \A i, j \in 1..Len(result) :
               i < j => DateLE(result[j].date, result[i].date)

\* two expenses of different dates are returned for a range that ends on
\* the date of the later one
C21_Witness ==
    /\ called = "get_expenses"
    /\ args.start_date # NoDate
    /\ Len(result) = 2
    /\ result[1].date # result[2].date
    /\ result[1].date = args.end_date

\* one stored expense lies outside the range, the other on its start
C21_WitnessExcluded ==
    /\ called = "get_expenses"
    /\ Cardinality(DOMAIN table) = 2
    /\ Len(result) = 1
    /\ result[1].date = args.start_date
    /\ args.end_date = NoDate

----------------------------------------------------------------------------
(* upload_csv.                                                             *)

\* the upload went through the rows of the file
RowsProcessed == called = "upload_csv" /\ result.missing_columns = {}

\* the date cell of a line is no date
UnparseableDate(line) ==
    Strip(line.date) # DateIsoFormat(<<2024, 1, 17>>)

\* the description cell of a line is empty or blank
EmptyDescription(line) == Strip(line.description) = <<>>

\* the amount cell of a line is a number
NumericAmount(line) == FloatOf(ReadCell(line.amount)).type = "float"

\* the amount cell of a line is a number that is zero or less
NonPositiveAmount(line) ==
    NumericAmount(line) /\ FloatOf(ReadCell(line.amount)).value <= 0

\* the rows reported as failures, and the rows stored
FailedRows == {result.error_messages[i].row :
                  i \in 1..Len(result.error_messages)}
StoredRows == {result.stored[i].row : i \in 1..Len(result.stored)}

\* C22: in upload_csv a row with an unparseable date, an empty description
\* or an amount <= 0 is reported as a failure of that row and is not
\* stored, and does not abort the batch: every valid row of the same file
\* is stored, and the success count plus the failure count is the number
\* of rows.
C22_RowFailures ==
    RowsProcessed =>
        /\ \A idx \in 1..Len(args.rows) :
               \/ UnparseableDate(args.rows[idx])
               \/ EmptyDescription(args.rows[idx])
               \/ NonPositiveAmount(args.rows[idx])
               => idx \in FailedRows /\ idx \notin StoredRows
        /\ \A idx \in 1..Len(args.rows) :
               /\ ~UnparseableDate(args.rows[idx])
               /\ ~EmptyDescription(args.rows[idx])
               /\ NumericAmount(args.rows[idx])
               /\ ~NonPositiveAmount(args.rows[idx])
               => idx \in StoredRows
        /\ result.success_count + result.error_count = Len(args.rows)

----------------------------------------------------------------------------
(* The handlers that write.                                                *)

\* C23: after any sequence of writes through add_expense, upload_csv,
\* update_expense and save_table_changes of src/main.py and the add_expense
\* tool of the DBAgent, every stored expense has an amount above zero.
C23_AmountsPositive == \A id \in DOMAIN table : table[id].amount > 0

\* C24: in upload_csv a row whose category is missing, because the file
\* has no category column or because the cell of the row is empty (as in
\* the line '2024-01-17,coffee,5000,,Starbucks' of the documented example),
\* is stored with the category the classifier returns; a row whose category
\* cell is not empty is stored with that category, and the classifier is
\* not called for it.
C24_CategoryFallback ==
    RowsProcessed =>
        \A i \in 1..Len(result.stored) :
            LET idx  == result.stored[i].row
                id   == result.stored[i].id
                cell == args.rows[idx].category
            IN  /\ "category" \notin args.columns \/ cell = <<>> =>
                    /\ idx \in result.classified
                    /\ table[id].category \in DefaultCategories
                /\ "category" \in args.columns /\ Strip(cell) # <<>> =>
                    /\ idx \notin result.classified
                    /\ table[id].category = StrValue(Strip(cell))

----------------------------------------------------------------------------
(* The data points of the forecast.                                        *)

\* the months in which the total of category c is not zero
NonZeroMonths(c) == {n \in MonthsOf(c) : TotalIn(c, n) # 0}

\* the value at the target month of the least-squares line through the
\* points (month, total of c) of the months M, as LineAtTarget
LineThrough(c, M) ==
    LET N   == Cardinality(M)
        t   == MonthNumber(TargetDate) - FirstMonth
        Sx  == SumFn([n \in M |-> n - FirstMonth], M)
        Sy  == SumFn([n \in M |-> TotalIn(c, n)], M)
        Cxy == SumFn([n \in M |-> (N * (n - FirstMonth) - Sx)
                                  * (N * TotalIn(c, n) - Sy)], M)
        Cxx == SumFn([n \in M |-> (N * (n - FirstMonth) - Sx)
                                  * (N * (n - FirstMonth) - Sx)], M)
    IN  <<Sy * Cxx + Cxy * (N * t - Sx), N * Cxx>>

\* C25: in predict_monthly_expense the data points of a category are
\* exactly the months in which the total of the category is not zero: the
\* prediction is the line (or, for a single point, the mean) of these
\* months alone, and a category without such a month has no prediction.
C25_NonZeroMonthsOnly ==
    ForecastCalled =>
        \A c \in Categories :
            LET M == NonZeroMonths(c)
            IN  /\ M = {} => c \notin DOMAIN result
                /\ Cardinality(M) = 1 =>
                      /\ c \in DOMAIN result
                      /\ \A n \in M : result[c] = <<TotalIn(c, n), 1>>
                /\ Cardinality(M) >= 2 =>
                      /\ c \in DOMAIN result
                      /\ result[c] =
                            IF LineThrough(c, M)[1] < 0 THEN <<0, 1>>
                            ELSE Frac(LineThrough(c, M)[1],
                                      LineThrough(c, M)[2])

----------------------------------------------------------------------------
(* Small categories have no outliers.                                      *)

\* the number of records of the category of the record at position i
CategorySize(i) ==
    Cardinality(IndicesOf(expenses, expenses[i].category))

\* C26: in exact arithmetic detect_outliers never reports a record whose
\* category has five or fewer records in the input, whatever the amounts;
\* in particular the only record of a category is never reported.
C26_SmallCategoriesSilent ==
    OutliersCalled =>
        \A i \in 1..Len(expenses) : CategorySize(i) <= 5 => ~Reported(i)

\* a category of five records, four of amount 100 and one of amount 500,
\* none reported, next to the only record of another category
C26_Witness ==
    /\ OutliersCalled
    /\ FourHundredsAnd(expenses, "food", 500)
    /\ Cardinality(IndicesOf(expenses, "transport")) = 1
    /\ result = <<>>

\* with six records the largest one is reported
C26_WitnessSix ==
    /\ OutliersCalled
    /\ \E i \in 1..Len(expenses) : CategorySize(i) = 6 /\ Reported(i)

----------------------------------------------------------------------------
(* The ids and the rows of the storage.                                    *)

\* C27: every add_expense of DatabaseManager returns an id that is
\* different from and greater than every id returned before, also when
\* expenses were deleted in between (no id is given twice), and
\* get_expense_by_id of that id returns exactly the date, category,
\* description, amount and merchant that were passed.
C27_FreshIds ==
    /\ \A i, j \in 1..Len(issued) : i < j => issued[i] < issued[j]
    /\ called = "add_expense" =>
          /\ result = issued[Len(issued)]
          /\ get_expense_by_id(table, result)
                = Expense(result, args.date, args.category, args.description,
                          args.amount, args.merchant)

\* an id is returned after the expense of the id before it was deleted
C27_Witness ==
    /\ called = "add_expense"
    /\ result = 2
    /\ 1 \notin DOMAIN table
    /\ table[2].merchant # NoneStr

\* the stored expenses as get_expense_by_id returns them
Stored(tbl) == [id \in DOMAIN tbl |-> get_expense_by_id(tbl, id)]

\* the expense e with the fields of a in place of its own
Overwritten(e, a) ==
    [c \in DOMAIN e |-> IF c \in DOMAIN a THEN a[c] ELSE e[c]]

\* C28: update_expense of DatabaseManager changes, on the row of the given
\* id, the fields whose argument is not None and nothing else (merchant =
\* None leaves the merchant as it is); it returns False and changes nothing
\* when all field arguments are None or no row has the id, and True
\* otherwise.
C28_OnlyGivenFields ==
    [][called' = "update_expense" =>
          LET id == args'.expense_id
              a  == args'.fields
          IN  IF DOMAIN a = {} \/ id \notin DOMAIN table
              THEN result' = FALSE /\ table' = table
              ELSE /\ result' = TRUE
                   /\ Stored(table')
                        = [i \in DOMAIN table |->
                              IF i = id
                              THEN Overwritten(Stored(table)[i], a)
                              ELSE Stored(table)[i]]]_vars

\* the amount of an expense with a merchant was set, the merchant was not
\* given, and another expense is stored
C28_Witness ==
    /\ called = "update_expense"
    /\ result = TRUE
    /\ DOMAIN args.fields = {"amount"}
    /\ table[args.expense_id].merchant = "shop"
    /\ table[args.expense_id].amount = 70
    /\ Cardinality(DOMAIN table) = 2

\* fields were given for an id that is not stored
C28_WitnessNoRow ==
    /\ called = "update_expense"
    /\ result = FALSE
    /\ DOMAIN args.fields = Columns
    /\ table # <<>>

\* no field was given for an id that is stored
C28_WitnessNoField ==
    /\ called = "update_expense"
    /\ result = FALSE
    /\ DOMAIN args.fields = {}
    /\ args.expense_id \in DOMAIN table

\* C29: delete_expense(id) returns True exactly when an expense of that id
\* is stored at the time of the call; after the call no expense of that id
\* is stored and every other stored expense is unchanged, so a second
\* delete_expense(id) returns False and changes nothing, and
\* get_expense_by_id(id) returns None.
C29_DeleteOnce ==
    [][/\ called' = "delete_expense" =>
             LET id == args'.expense_id
             IN  /\ result' = (id \in DOMAIN table)
                 /\ id \notin DOMAIN table'
                 /\ Stored(table')
                      = [i \in DOMAIN table \ {id} |-> Stored(table)[i]]
                 /\ delete_expense(table', id).returned = FALSE
                 /\ delete_expense(table', id).table = table'
       /\ (/\ called' = "get_expense_by_id"
           /\ args'.expense_id \notin DOMAIN table) =>
             result' = NoneValue]_vars

\* an expense was deleted and another one is still stored
C29_Witness ==
    /\ called = "delete_expense"
    /\ result = TRUE
    /\ Cardinality(DOMAIN table) = 1

\* the delete of an id that was given earlier and is no longer stored
C29_WitnessSecond ==
    /\ called = "delete_expense"
    /\ result = FALSE
    /\ \E i \in 1..Len(issued) : issued[i] = args.expense_id

\* the read of an id that was given earlier and is no longer stored
C29_WitnessRead ==
    /\ called = "get_expense_by_id"
    /\ result = NoneValue
    /\ \E i \in 1..Len(issued) : issued[i] = args.expense_id

----------------------------------------------------------------------------
(* save_table_changes.                                                     *)

\* the ids of the rows of an edited table whose delete box is checked
MarkedIds(rows) == {IntOf(rows[i].ID) : i \in {j \in 1..Len(rows) :
                                                  rows[j].delete}}

\* a row of an edited table passes the validation: its date is a date,
\* its description is not empty and its amount is a number above zero
PassesValidation(row) ==
    /\ Strip(row.date.chars) = Day
    /\ Strip(row.description.chars) # <<>>
    /\ TableAmount(row.amount).type = "float"
    /\ TableAmount(row.amount).value > 0

\* the positions in the log of the operations of one kind
LogOf(log, op) == {i \in 1..Len(log) : log[i].op = op}

\* What save_table_changes did with the rows of an edited table, read from
\* the log and the messages of res and the table before and after: the
\* marked rows are deleted before any update, no row of a marked ID is
\* updated or created, the table afterwards holds no marked ID, and each
\* row of another ID that passes the validation is updated; with
\* stored_only this is required of the rows whose ID is stored, and the
\* rows whose ID is not stored are to be reported as not found.
SaveOutcome(rows, res, before, after, stored_only) ==
    LET log    == res.log
        marked == MarkedIds(rows)
        valid  == {m \in 1..Len(rows) : PassesValidation(rows[m])}
    IN  /\ \A id \in marked \cap DOMAIN before :
              \E i \in LogOf(log, "delete") : log[i].id = id
        /\ \A i \in LogOf(log, "delete") :
           \A j \in LogOf(log, "update") : i < j
        /\ \A j \in LogOf(log, "update") : log[j].id \notin marked
        /\ DOMAIN after = DOMAIN before \ marked
        /\ \A idx \in valid :
              LET id == IntOf(rows[idx].ID)
              IN  id \notin marked =>
                     IF id \in DOMAIN before
                     THEN /\ \E j \in LogOf(log, "update") : log[j].id = id
                          /\ after[id].amount
                               \in {TableAmount(rows[k].amount).value :
                                       k \in valid}
                     ELSE /\ ~stored_only
                             => \E j \in LogOf(log, "update") : log[j].id = id
                          /\ stored_only
                             => \E k \in 1..Len(res.error_messages) :
                                   res.error_messages[k]
                                     = [row |-> idx, error |-> "not found"]

\* C30 as stated: in save_table_changes every row marked for deletion is
\* deleted before any update is made, no row whose ID is in the deletion
\* list is updated or created again, every other row that passes the
\* validation is updated, also when another row fails, and afterwards no
\* stored expense has an ID that was marked for deletion.
C30_Original ==
    [][called' = "save_table_changes" =>
          SaveOutcome(args', result', table, table', FALSE)]_vars

\* C30: in save_table_changes every row marked for deletion is deleted
\* before any update is made, no row whose ID is in the deletion list is
\* updated or created again, every other row that passes the validation
\* and whose ID is stored is updated, also when another row fails (a row
\* whose ID is not stored is reported as not found and nothing is created
\* for it), and afterwards no stored expense has an ID that was marked for
\* deletion.
C30_Amended ==
    [][called' = "save_table_changes" =>
          SaveOutcome(args', result', table, table', TRUE)]_vars

\* a row that passes the validation has an ID that is not stored: it is
\* reported and the table is as before
C30_WitnessNotStored ==
    /\ called = "save_table_changes"
    /\ Len(args) = 1
    /\ PassesValidation(args[1])
    /\ ~args[1].delete
    /\ IntOf(args[1].ID) \notin DOMAIN table
    /\ result.error_count = 1

\* one expense was deleted and another one updated by the same call
C30_Witness ==
    /\ called = "save_table_changes"
    /\ result.delete_count = 1
    /\ result.success_count = 1
    /\ Len(args) = 2

\* a row is marked for deletion and a row of the same ID, given as text,
\* is not: the expense is deleted and the other row is not written
C30_WitnessSameId ==
    /\ called = "save_table_changes"
    /\ Len(args) = 2
    /\ args[1].ID = StrValue(<<"2">>) /\ ~args[1].delete
    /\ PassesValidation(args[1])
    /\ args[2].ID = IntValue(2) /\ args[2].delete
    /\ result.delete_count = 1
    /\ result.success_count = 0
    /\ result.error_count = 1

\* a row fails the validation and the other row is written
C30_WitnessFailure ==
    /\ called = "save_table_changes"
    /\ Len(args) = 2
    /\ ~PassesValidation(args[1])
    /\ result.error_count = 1
    /\ result.success_count = 1

====
